---- MODULE Spec2Model ----
(***************************************************************************)
(* Fault-tolerant link supervisor of the PPP-over-USB / SoftAP router.     *)
(*                                                                         *)
(* Part 1 (link): ppp_status_cb, ppp_reconnect_task, ppp_usb_start of the  *)
(* PPP module (src/unnamed/part_001, lines 743-916).                       *)
(* Part 2 (watchdog): watchdog_task, ping_connected_clients,               *)
(* watchdog_start of the watchdog module (src/unnamed/part_000, lines      *)
(* 165-344) and mqtt_broker_get_obk_connected_state (src/main/             *)
(* mqtt_broker.c).                                                         *)
(***************************************************************************)
EXTENDS Integers, Sequences, FiniteSets

(***************************************************************************)
(* Bounds of the model (not program constants).                            *)
(***************************************************************************)
\* how often ppp_usb_start is called again after the first call
MaxStartCalls == 2
\* largest chunk, in bytes, one read of the serial channel returns
MaxChunk == 2
\* chunks the serial channel delivers in one run
MaxRxChunks == 2

\* most stations the access point reports in one station list
MaxStaNum == 2
\* how often watchdog_start is called
MaxWdStarts == 2
\* restarts counted within one failure episode (the count saturates here)
MaxEpisodeCount == 2
\* how often mqtt_broker_start is called
MaxBrokerStarts == 4
\* largest Content-Length of a POST /ota request, in bytes
MaxImageLen == 3
\* POST /ota requests in one run
MaxOtaRequests == 2
\* longest ssid field of a POST /set request, in characters
MaxSsidLen == 2
\* longest pass field of a POST /set request, in characters
MaxPassLen == 8
\* POST /set requests in one run
MaxSetRequests == 2
\* failed calls of mosquitto_reconnect in a row
MaxReconnectFails == 4
\* errors of mosquitto_loop in one run of the collector
MaxLoopErrors == 2
\* failed checks of the watchdog, each with a reset of the display, in one run
MaxOledResets == 2
\* most white space in front of and behind the word of a payload
MaxPad == 10
MaxRefEvents == 4
MaxProbes == 2

(***************************************************************************)
(* Program constants of the PPP module.                                    *)
(***************************************************************************)
PPP_CONNECTED_BIT == "PPP_CONNECTED_BIT"
PPP_DISCONN_BIT == "PPP_DISCONN_BIT"
PPPERR_NONE == "PPPERR_NONE"
\* error/close codes of the link engine: everything but PPPERR_NONE takes
\* the default branch of ppp_status_cb
ErrorCodes == {"PPPERR_USER", "PPPERR_CONNECT", "PPPERR_PEERDEAD"}
\* vTaskDelay(pdMS_TO_TICKS(2000)) of ppp_reconnect_task
ReconnectDelayMs == 2000

(***************************************************************************)
(* Program constants of the watchdog module.                               *)
(***************************************************************************)
AP_MAX_CONN == 4
\* ping_config.timeout_ms = 1000
PingTimeoutMs == 1000
\* xSemaphoreTake(result.done, pdMS_TO_TICKS(ping_config.timeout_ms + 200))
PingWaitMs == PingTimeoutMs + 200
\* values of g_obk_connected_state
OBK_ONLINE == 1
OBK_OFFLINE == 0
OBK_UNKNOWN == -1
\* static uint32_t feed_period_ms = 10000
DefaultFeedPeriodMs == 10000
\* arguments watchdog_start is called with
TimeoutSecondsSet == {15, 20}
PeriodMsSet == {5000, 10000}
\* the tasks the task watchdog timer (TWDT) knows
CallerTask == "caller"
FeedTask == "watchdog_task"

VARIABLES
    \* ---- watchdog module state ----
    watchdog_task_handle, \* static TaskHandle_t watchdog_task_handle is non-NULL
    feed_period_ms,       \* static uint32_t feed_period_ms
    wdStarts,             \* calls of watchdog_start made so far
    wdPc,                 \* position of watchdog_task
    pairs,                \* ping_connected_clients: pairs[i].ip.addr after the lease lookup
    wdI,                  \* ping_connected_clients: loop index i (1-based)
    \* ---- task watchdog timer of ESP-IDF ----
    twdtInit,             \* the timer is initialised
    twdtTimeoutMs,        \* its timeout
    twdtSubscribed,       \* the tasks subscribed to it
    twdtSince,            \* per task: ms since it last reset the timer
    \* ---- telemetry collaborator ----
    g_obk_mutex,          \* static SemaphoreHandle_t g_obk_mutex is non-NULL
    g_obk_connected_state,\* static int8_t g_obk_connected_state
    \* ---- history of the current monitoring period, for the properties ----
    cycFed,               \* esp_task_wdt_reset calls of the feed task
    cycState,             \* <<s>>: the suppression state s was read; <<>>: not read yet
    cycStaNum,            \* sta_list.num the access point reported (-1: none)
    cycEnumerated,        \* esp_wifi_ap_get_sta_list was called
    cycProbed,            \* indices i for which ping_client_ip(pairs[i].ip) was called
    cycProbeFailed,       \* a client with a resolved address did not reply
    cycResult,            \* ping_connected_clients returned "success" (true) or "failure"
    cycRestarts,          \* calls of ap_restart
    \* ---- history across monitoring periods ----
    prevProbeFailed,      \* cycProbeFailed of the previous monitoring period
    epRestarts            \* ap_restart calls in the current run of failing cycles

VARIABLES
    \* ---- ping_client_ip in progress ----
    pingFate,             \* what the ping session of the running probe will do
    probeSems,            \* binary semaphores of probes that exist
    probeSessions,        \* ping sessions of probes that exist
    \* ---- access point collaborator ----
    apRestartsInFlight,   \* calls of ap_restart that have not returned
    \* ---- task watchdog timer: expiry ----
    twdtPanic,            \* trigger_panic of the configuration in force
    twdtTripped,          \* tasks for which the timer has expired
    deviceReset,          \* the timer has reset the chip
    \* ---- environment ----
    wdHung,               \* watchdog_task is stuck and makes no progress
    clientSilent,         \* a client with a lease is associated and never replies
    \* ---- history of the current monitoring period, continued ----
    cycQueryFault         \* the query of ping_connected_clients that failed, or "none"

pingVars == <<pingFate, probeSems, probeSessions>>

expiryVars == <<twdtPanic, twdtTripped, deviceReset>>

envVars == <<wdHung, clientSilent>>

wdVars == <<watchdog_task_handle, feed_period_ms, wdStarts, wdPc, pairs, wdI,
            twdtInit, twdtTimeoutMs, twdtSubscribed, twdtSince,
            g_obk_mutex, g_obk_connected_state,
            cycFed, cycState, cycStaNum, cycEnumerated, cycProbed,
            cycProbeFailed, cycResult, cycRestarts, prevProbeFailed, epRestarts,
            pingVars, apRestartsInFlight, expiryVars, envVars, cycQueryFault>>

cycVars == <<cycFed, cycState, cycStaNum, cycEnumerated, cycProbed,
             cycProbeFailed, cycResult, cycRestarts>>

twdtVars == <<twdtInit, twdtTimeoutMs, twdtSubscribed, twdtSince>>

VARIABLES
    \* ---- PPP module state ----
    ppp,              \* static ppp_pcb *ppp is non-NULL
    s_ppp_up,         \* static bool s_ppp_up
    s_event_group,    \* bits set in s_event_group
    startPc,          \* position of the task running ppp_usb_start
    startCalls,       \* further calls of ppp_usb_start made so far
    rcPc,             \* position of ppp_reconnect_task
    rcDelayMs,        \* delay ppp_reconnect_task is sleeping for (0: none)
    rxPc,             \* position of ppp_usb_rx_task
    rxLastInput,      \* size of the last chunk handed to pppos_input_tcpip (0: none)
    ppp_netif,        \* static struct netif ppp_netif: its IPv4 address, gateway, netmask
    \* ---- history of the transport bridge, for the properties ----
    rxCount,          \* chunks received from the serial channel, numbered 1, 2, ..
    rxDelivered,      \* numbers of the chunks handed to pppos_input_tcpip, in order
    lastOutput,       \* <<written, returned>> of the last ppp_output_cb call, or <<>>
    \* ---- link engine (lwIP PPPoS pcb) as seen through its interface ----
    enginePhase,      \* "DEAD" | "NEGOTIATING" | "RUNNING"
    \* ---- history of the link, for the properties ----
    lastEvent,        \* last err_code delivered to ppp_status_cb, or "none"
    connectSinceFault,\* pppapi_connect was called since the link was last Idle/Faulted
    faultSignalled,   \* an error/close event is waiting for the reconnect task
    faultInBackoff,   \* the reconnect task sleeps for an error/close event
    prevDelayMs,      \* delay waited for the previous consecutive failure (0: none)
    offContract       \* a status event was delivered that the engine's contract excludes

bridgeVars == <<ppp_netif, rxCount, rxDelivered, lastOutput>>

linkVars == <<ppp, s_ppp_up, s_event_group, startPc, startCalls, rcPc, rcDelayMs,
              rxPc, rxLastInput, enginePhase, lastEvent, connectSinceFault, faultSignalled,
              faultInBackoff, prevDelayMs, offContract, bridgeVars>>

VARIABLES
    \* ---- telemetry collaborator: the mutex and its users ----
    obkHolder,        \* who holds g_obk_mutex: "none" | "handler" | "getter" | "power"
    obkMsg,           \* <<topic, payload>> handle_obk_message is working on, or <<>>
    obkReturned,      \* <<r, m>>: the state getter returned r when the last
                      \* recognised connection-state message was m; <<>>: no call yet
    lastRecognised    \* payload of the last online/offline message that
                      \* handle_obk_message was called with and has returned from

obkVars == <<obkHolder, obkMsg, obkReturned, lastRecognised>>

VARIABLES
    \* ---- MQTT broker module (src/main/mqtt_broker.c) ----
    s_broker_task,    \* static TaskHandle_t s_broker_task is non-NULL
    s_broker_running, \* static bool s_broker_running
    s_sub_task,       \* static TaskHandle_t s_sub_task is non-NULL
    mbStartPc,        \* position of the task calling mqtt_broker_start
    mbStartCalls,     \* calls of mqtt_broker_start made so far
    mbLastCall,       \* how the last call went: "refused" | "created" | "failed"
    brokerTasks,      \* per position of mqtt_broker_task: the tasks that are there
    subTasks          \* mqtt_sub_task tasks that exist

brokerVars == <<s_broker_task, s_broker_running, s_sub_task, mbStartPc,
                mbStartCalls, mbLastCall, brokerTasks, subTasks>>

VARIABLES
    \* ---- watchdog module: the feed tasks that exist ----
    wdTasks           \* watchdog_task tasks created and not deleted

VARIABLES
    \* ---- web server: ota_post_handler (src/main/web_server.c) ----
    s_ota_in_progress,\* static bool s_ota_in_progress
    s_ota_progress,   \* static int s_ota_progress
    otaPc,            \* position of ota_post_handler, "idle" between requests
    otaTotal,         \* total = req->content_len
    otaRemaining,     \* remaining
    otaRequests,      \* POST /ota requests handled or in work
    \* ---- the flash and the chip, for the properties ----
    otaWritten,       \* bytes esp_ota_write has written for the request
    otaEnded,         \* esp_ota_end succeeded for the request
    otaFailure,       \* the step of the request that failed, or "none"
    bootSwitched,     \* esp_ota_set_boot_partition has switched the boot partition
    otaRebooted       \* esp_restart was called

otaVars == <<s_ota_in_progress, s_ota_progress, otaPc, otaTotal, otaRemaining,
             otaRequests, otaWritten, otaEnded, otaFailure, bootSwitched,
             otaRebooted>>

VARIABLES
    \* ---- access-point credentials and the POST /set handler ----
    g_ap_ssid,        \* static char g_ap_ssid[33], as a string
    g_ap_pass,        \* static char g_ap_pass[65], as a string
    nvsCreds,         \* <<ssid, pass>> stored under the NVS keys (<<>>: no key)
    setPc,            \* position of set_post_handler, "idle" between requests
    setRequests,      \* POST /set requests handled or in work
    setApRestarts,    \* restarts of the access point the handler has begun
    setLast           \* the last request: the bytes received, the lengths of
                      \* its SSID and password, and how persisting went

setVars == <<g_ap_ssid, g_ap_pass, nvsCreds, setPc, setRequests,
             setApRestarts, setLast>>

VARIABLES
    \* ---- the collector on the router: mqtt_to_sqlite.c ----
    g_reconnect_min,      \* static int g_reconnect_min, seconds
    g_reconnect_max,      \* static int g_reconnect_max, seconds
    g_sleep_after_script, \* static int g_sleep_after_script, seconds
    g_should_stop,        \* static volatile sig_atomic_t g_should_stop
    backoff,              \* int backoff of main
    collPc,               \* position of main: "boot" | "loop" | "repair" |
                          \* "settle" | "reconnect" | "wait" | "exited"
    \* ---- history of the collector, for the properties ----
    collWait,             \* seconds of the wait after the last failed reconnect
    collFails,            \* failed calls of mosquitto_reconnect in a row
    collErrors,           \* errors mosquitto_loop has returned
    collLast,             \* what the last call of libmosquitto returned
    collScript,           \* how the last run of the repair script ended
    collSignal            \* the last signal on_signal has handled, or "none"

collectorVars == <<g_reconnect_min, g_reconnect_max, g_sleep_after_script,
                   g_should_stop, backoff, collPc, collWait, collFails,
                   collErrors, collLast, collScript, collSignal>>

VARIABLES
    \* ---- a caller of ppp_get_ip_info (the web server's /status handler) ----
    infoPc,           \* position of the call: "idle" | "ip" | "gw" | "nm"
    infoOut,          \* *ip, *gw, *nm of the caller
    infoReturned,     \* <<addrs>>: what the last call returned; <<>>: no call yet
    infoSeen          \* the addresses the netif had at the reads of the call

infoVars == <<infoPc, infoOut, infoReturned, infoSeen>>

VARIABLES
    \* ---- display: oled.c ----
    screensaver,      \* static bool screensaver
    idle_seconds,     \* static int idle_seconds, counted up to SCREENSAVER_DELAY
    blank_seconds,    \* static int blank_seconds
    debug_mode,       \* static bool debug_mode
    oledPc,           \* oled_task: "sleep" in vTaskDelay, "woken" | "dimmed" inside
                      \* handle_oled, in a transfer to the display
    resetPc,          \* watchdog_task in oled_blank_and_reset_screensaver: the
                      \* variable it writes next; "returned"; "none" outside
    oledResets,       \* calls of oled_blank_and_reset_screensaver
    oledApRestarts,   \* calls of ap_restart that followed them
    resetLeft         \* <<screensaver, idle_seconds, blank_seconds>> at the last
                      \* return of oled_blank_and_reset_screensaver, or <<>>

oledVars == <<screensaver, idle_seconds, blank_seconds, debug_mode, oledPc,
              resetPc, oledResets, oledApRestarts, resetLeft>>

VARIABLES
    \* ---- messages handed to handle_obk_message, as bytes ----
    obkLastMessage,   \* the last message: topic, payload, whether the mutex was taken
    obkDelivered      \* changes with every message handed over

payloadVars == <<obkLastMessage, obkDelivered>>

VARIABLES
    \* ---- the reconnect loop of app_main beside the one of ppp_reconnect_task ----
    amBits,           \* app_main: bits set in its s_event_group
    amPc,             \* app_main loop: "wait" | "sleep"
    amDelayMs,        \* app_main loop: the delay it is sleeping for (0: none)
    amLog,            \* app_main loop: its connect requests, each with the delay before it
    rtBits,           \* ppp_reconnect_task: bits set in s_event_group
    rtPc,             \* ppp_reconnect_task: "wait" | "sleep"
    rtDelayMs,        \* ppp_reconnect_task: the delay it is sleeping for (0: none)
    rtLog,            \* ppp_reconnect_task: its connect requests, each with the delay before it
    refWoken,         \* the bits the loops were last woken with, <<app_main, task>>
    refEvents         \* status events delivered so far

refVars == <<amBits, amPc, amDelayMs, amLog, rtBits, rtPc, rtDelayMs, rtLog,
             refWoken, refEvents>>

VARIABLES
    \* ---- history of watchdog_start, for the properties ----
    wdLastCall        \* arguments and esp_task_wdt_init result of the last call, or <<>>

startVars == <<wdLastCall>>

VARIABLES
    \* ---- ping_client_ip beside the session tasks of the ping library ----
    pcPc,             \* position of the task inside ping_client_ip ("idle": not in it)
    pcProbe,          \* calls of ping_client_ip that got their semaphore, numbered 1, 2, ..
    pcSuccess,        \* result.success of the call in progress
    pcSemGiven,       \* result.done of the call in progress is available
    pcReturned,       \* <<value>> the last call returned, or <<>>
    pcSessions        \* per call: its ping session task and the flags of the session

probeVars == <<pcPc, pcProbe, pcSuccess, pcSemGiven, pcReturned, pcSessions>>

VARIABLES
    \* ---- the client of the POST /ota request ----
    otaClient         \* "sending" | "silent" (connected, sends nothing more) | "closed"

clientVars == <<otaClient>>

VARIABLES
    \* ---- history of the collector's shutdown, for the properties ----
    collShutdown      \* the calls main has made after its loop, in order

shutVars == <<collShutdown>>

\* the state of the collaborators outside the link supervisor
auxVars == <<obkVars, brokerVars, otaVars, setVars, collectorVars,
        infoVars,
        oledVars,
        payloadVars,
        refVars,
        startVars,
        probeVars,
        clientVars,
        shutVars>>

vars == <<linkVars, wdVars, auxVars, wdTasks>>

(***************************************************************************)
(* PPP module: pure parts of the handlers.                                 *)
(***************************************************************************)
\* ppp_status_cb forgets to clear the flag on error/close
StatusCbUp_KeepOnError(err_code, up) ==
    IF err_code = PPPERR_NONE THEN TRUE ELSE up

\* s_ppp_up after ppp_status_cb(err_code)
StatusCbUp(err_code, up) ==
    IF err_code = PPPERR_NONE THEN TRUE ELSE FALSE

\* the bit ppp_status_cb sets in s_event_group
StatusCbBit(err_code) ==
    IF err_code = PPPERR_NONE THEN PPP_CONNECTED_BIT ELSE PPP_DISCONN_BIT

\* the reconnect task reconnects on any event
ReconnectWanted_AnyBit(bits) ==
    bits # {}

\* the reconnect task reconnects only when the disconnect bit came alone
ReconnectWanted_OnlyAlone(bits) ==
    bits = {PPP_DISCONN_BIT}

\* ppp_reconnect_task: if (bits & PPP_DISCONN_BIT)
ReconnectWanted(bits) ==
    PPP_DISCONN_BIT \in bits

\* the reconnect task doubles the delay after each consecutive failure, without a cap
ReconnectDelay_Doubling(prev) ==
    IF prev = 0 THEN ReconnectDelayMs ELSE 2 * prev

\* the delay ppp_reconnect_task waits before pppapi_connect; the code keeps
\* no backoff state: the delay does not depend on the previous one
ReconnectDelay(prev) ==
    ReconnectDelayMs

\* ppp_usb_rx_task forwards only chunks of more than one byte
RxForward_NotSingle(n, pcb) ==
    n > 1 /\ pcb

\* ppp_usb_rx_task: if (n > 0 && ppp) pppos_input_tcpip(ppp, buf, n)
RxForward(n, pcb) ==
    n > 0 /\ pcb

\* ppp_output_cb reports the whole buffer as written whatever the channel did
ppp_output_cb_AlwaysLen(written, len) ==
    len

\* ppp_output_cb: 0 when usb_serial_jtag_write_bytes failed, else
\* (u32_t)written; the cast keeps the value of a non-negative int
ppp_output_cb(written, len) ==
    IF written < 0 THEN 0 ELSE written

\* the addresses of a netif without addresses, and of one the peer configured
NoAddrs == [ip |-> 0, gw |-> 0, nm |-> 0]
PeerAddrs == [ip |-> 1, gw |-> 1, nm |-> 1]

\* ppp_get_ip_info(&ip, &gw, &nm)
ppp_get_ip_info ==
    IF ppp THEN ppp_netif ELSE NoAddrs

\* ppp_get_ip()
ppp_get_ip ==
    IF ppp THEN ppp_netif.ip ELSE 0

\* ppp_is_up()
ppp_is_up ==
    s_ppp_up

\* the policy constants of the backoff as the code fixes them: one delay,
\* which is minimum and ceiling at once
BackoffMinMs == ReconnectDelayMs
BackoffCeilingMs == ReconnectDelayMs

(***************************************************************************)
(* Link engine interface.  pppapi_connect on a pcb that is not in its dead *)
(* phase returns ERR_ALREADY and changes nothing; the engine calls the     *)
(* status callback only for a pcb that was connected and is not dead.      *)
(***************************************************************************)
pppapi_connect ==
    /\ enginePhase' = IF enginePhase = "DEAD" THEN "NEGOTIATING" ELSE enginePhase
    /\ connectSinceFault' = TRUE
    /\ faultInBackoff' = FALSE

\* ppp_status_cb(pcb, err_code, ctx)
ppp_status_cb(err_code) ==
    /\ s_ppp_up' = StatusCbUp(err_code, s_ppp_up)
    /\ s_event_group' = s_event_group \cup {StatusCbBit(err_code)}
    /\ lastEvent' = err_code
    /\ faultSignalled' = IF err_code = PPPERR_NONE THEN faultSignalled ELSE TRUE
    /\ prevDelayMs' = IF err_code = PPPERR_NONE THEN 0 ELSE prevDelayMs

(***************************************************************************)
(* ppp_usb_start                                                           *)
(***************************************************************************)
\* first call: event group, driver, pcb and the two tasks are created
StartCreate ==
    /\ startPc = "init"
    /\ ~ppp
    /\ ppp' = TRUE
    /\ s_event_group' = {}
    /\ rcPc' = "wait"
    /\ rxPc' = "read"
    /\ startPc' = "connect"
    /\ UNCHANGED <<s_ppp_up, startCalls, rcDelayMs, rxLastInput, enginePhase, lastEvent,
                   connectSinceFault, faultSignalled, faultInBackoff, prevDelayMs, offContract>>
    /\ UNCHANGED <<wdVars, auxVars, wdTasks>>
    /\ UNCHANGED bridgeVars

\* first call, last statement: pppapi_connect(ppp, 0)
StartConnect ==
    /\ startPc = "connect"
    /\ pppapi_connect
    /\ startPc' = "done"
    /\ UNCHANGED <<ppp, s_ppp_up, s_event_group, startCalls, rcPc, rcDelayMs,
                   rxPc, rxLastInput, lastEvent, faultSignalled, prevDelayMs, offContract>>
    /\ UNCHANGED <<wdVars, auxVars, wdTasks>>
    /\ UNCHANGED bridgeVars

\* a later call: if (ppp) return
StartAgain ==
    /\ startPc = "done"
    /\ ppp
    /\ startCalls < MaxStartCalls
    /\ startCalls' = startCalls + 1
    /\ UNCHANGED <<ppp, s_ppp_up, s_event_group, startPc, rcPc, rcDelayMs,
                   rxPc, rxLastInput, enginePhase, lastEvent, connectSinceFault, faultSignalled,
                   faultInBackoff, prevDelayMs, offContract>>
    /\ UNCHANGED <<wdVars, auxVars, wdTasks>>
    /\ UNCHANGED bridgeVars

(***************************************************************************)
(* ppp_reconnect_task                                                      *)
(***************************************************************************)
\* xEventGroupWaitBits(CONNECTED|DISCONN, clear on exit, any bit) returns;
\* on the disconnect bit the task enters vTaskDelay
RcWake ==
    /\ rcPc = "wait"
    /\ s_event_group # {}
    /\ s_event_group' = {}
    /\ IF ReconnectWanted(s_event_group)
       THEN /\ rcPc' = "sleep"
            /\ rcDelayMs' = ReconnectDelay(prevDelayMs)
       ELSE /\ rcPc' = "wait"
            /\ rcDelayMs' = 0
    /\ faultInBackoff' = IF rcPc' = "sleep" THEN faultSignalled ELSE faultInBackoff
    /\ faultSignalled' = IF rcPc' = "sleep" THEN FALSE ELSE faultSignalled
    /\ UNCHANGED <<ppp, s_ppp_up, startPc, startCalls, rxPc, rxLastInput,
                   enginePhase, lastEvent, connectSinceFault, prevDelayMs, offContract>>
    /\ UNCHANGED <<wdVars, auxVars, wdTasks>>
    /\ UNCHANGED bridgeVars

\* the delay has elapsed: pppapi_connect(ppp, 0), back to the wait
RcConnect ==
    /\ rcPc = "sleep"
    /\ pppapi_connect
    /\ rcPc' = "wait"
    /\ rcDelayMs' = 0
    /\ prevDelayMs' = rcDelayMs
    /\ UNCHANGED <<ppp, s_ppp_up, s_event_group, startPc, startCalls, rxPc,
                   rxLastInput, lastEvent, faultSignalled, offContract>>
    /\ UNCHANGED <<wdVars, auxVars, wdTasks>>
    /\ UNCHANGED bridgeVars

(***************************************************************************)
(* ppp_usb_rx_task                                                         *)
(***************************************************************************)
\* usb_serial_jtag_read_bytes(buf, 256, 100 ms) returns n; a chunk (n > 0) is
\* handed to pppos_input_tcpip when the pcb exists
RxRead ==
    /\ rxPc = "read"
    /\ \E n \in -1 .. MaxChunk :
          LET chunk == IF n > 0 THEN rxCount + 1 ELSE 0
          IN  /\ n > 0 => rxCount < MaxRxChunks
              /\ rxCount' = IF n > 0 THEN rxCount + 1 ELSE rxCount
              /\ IF RxForward(n, ppp)
                 THEN /\ rxLastInput' = n
                      /\ rxDelivered' = Append(rxDelivered, chunk)
                 ELSE UNCHANGED <<rxLastInput, rxDelivered>>
    /\ rxPc' = "delay"
    /\ UNCHANGED <<ppp, s_ppp_up, s_event_group, startPc, startCalls, rcPc,
                   rcDelayMs, enginePhase, lastEvent, connectSinceFault,
                   faultSignalled, faultInBackoff, prevDelayMs, offContract>>
    /\ UNCHANGED <<ppp_netif, lastOutput>>
    /\ UNCHANGED <<wdVars, auxVars, wdTasks>>

\* vTaskDelay(pdMS_TO_TICKS(10))
RxDelay ==
    /\ rxPc = "delay"
    /\ rxPc' = "read"
    /\ UNCHANGED <<ppp, s_ppp_up, s_event_group, startPc, startCalls, rcPc,
                   rcDelayMs, rxLastInput, enginePhase, lastEvent,
                   connectSinceFault, faultSignalled, faultInBackoff, prevDelayMs, offContract>>
    /\ UNCHANGED <<wdVars, auxVars, wdTasks>>
    /\ UNCHANGED bridgeVars

(***************************************************************************)
(* Status events.                                                          *)
(***************************************************************************)
\* the engine has negotiated the addresses and writes them to the netif; the
\* status callback, which reads them from pcb->netif, has not been called yet
EngineAddrAssigned ==
    /\ enginePhase = "NEGOTIATING"
    /\ ppp_netif = NoAddrs
    /\ ppp_netif' = PeerAddrs
    /\ UNCHANGED <<ppp, s_ppp_up, s_event_group, startPc, startCalls, rcPc,
                   rcDelayMs, rxPc, rxLastInput, enginePhase, lastEvent,
                   connectSinceFault, faultSignalled, faultInBackoff,
                   prevDelayMs, offContract, rxCount, rxDelivered, lastOutput>>
    /\ UNCHANGED <<wdVars, auxVars, wdTasks>>

\* the engine has a frame to transmit and calls ppp_output_cb(pcb, data, len,
\* ctx); usb_serial_jtag_write_bytes accepts some of the bytes or fails
OutputCb ==
    /\ ppp
    /\ enginePhase # "DEAD"
    /\ \E len \in 1 .. MaxChunk : \E written \in -1 .. len :
          lastOutput' = <<written, ppp_output_cb(written, len)>>
    /\ UNCHANGED <<ppp, s_ppp_up, s_event_group, startPc, startCalls, rcPc,
                   rcDelayMs, rxPc, rxLastInput, enginePhase, lastEvent,
                   connectSinceFault, faultSignalled, faultInBackoff,
                   prevDelayMs, offContract, ppp_netif, rxCount, rxDelivered>>
    /\ UNCHANGED <<wdVars, auxVars, wdTasks>>

\* the engine reports the link up (IPv4 up, and again for IPv6 up)
EngineLinkUp ==
    /\ enginePhase \in {"NEGOTIATING", "RUNNING"}
    /\ ppp_netif # NoAddrs
    /\ enginePhase' = "RUNNING"
    /\ ppp_status_cb(PPPERR_NONE)
    /\ UNCHANGED <<ppp, startPc, startCalls, rcPc, rcDelayMs, rxPc, rxLastInput,
                   connectSinceFault, faultInBackoff, offContract>>
    /\ UNCHANGED <<wdVars, auxVars, wdTasks>>
    /\ UNCHANGED bridgeVars

\* the engine ends the connection: one error/close event, the pcb is dead
EngineLinkDown ==
    /\ enginePhase \in {"NEGOTIATING", "RUNNING"}
    /\ \E err_code \in ErrorCodes :
          /\ ppp_status_cb(err_code)
          /\ connectSinceFault' = FALSE
    /\ enginePhase' = "DEAD"
    /\ UNCHANGED <<ppp, startPc, startCalls, rcPc, rcDelayMs, rxPc, rxLastInput,
                   faultInBackoff, offContract>>
    /\ UNCHANGED <<wdVars, auxVars, wdTasks>>
    /\ ppp_netif' = NoAddrs
    /\ UNCHANGED <<rxCount, rxDelivered, lastOutput>>

\* a status event the engine's contract excludes: delivered while the pcb is
\* dead (before the first connect request, or after an error/close event
\* and before the next connect request)
StrayStatusEvent ==
    /\ ppp
    /\ enginePhase = "DEAD"
    /\ \E err_code \in ErrorCodes \cup {PPPERR_NONE} :
          /\ ppp_status_cb(err_code)
          /\ connectSinceFault' =
                IF err_code = PPPERR_NONE THEN connectSinceFault ELSE FALSE
    /\ offContract' = TRUE
    /\ UNCHANGED <<ppp, startPc, startCalls, rcPc, rcDelayMs, rxPc, rxLastInput,
                   enginePhase, faultInBackoff>>
    /\ UNCHANGED <<wdVars, auxVars, wdTasks>>
    /\ UNCHANGED bridgeVars

LinkInit ==
    /\ ppp = FALSE
    /\ s_ppp_up = FALSE
    /\ s_event_group = {}
    /\ startPc = "init"
    /\ startCalls = 0
    /\ rcPc = "none"
    /\ rcDelayMs = 0
    /\ rxPc = "none"
    /\ rxLastInput = 0
    /\ ppp_netif = NoAddrs
    /\ rxCount = 0
    /\ rxDelivered = <<>>
    /\ lastOutput = <<>>
    /\ enginePhase = "DEAD"
    /\ lastEvent = "none"
    /\ connectSinceFault = FALSE
    /\ faultSignalled = FALSE
    /\ faultInBackoff = FALSE
    /\ prevDelayMs = 0
    /\ offContract = FALSE

\* the link state of the Link State Machine, read off the module's state
LinkState ==
    IF s_ppp_up THEN "Established"
    ELSE IF connectSinceFault THEN "Connecting"
    ELSE IF lastEvent \in ErrorCodes THEN "Faulted"
    ELSE "Idle"

(***************************************************************************)
(* Watchdog module: pure parts.                                            *)
(***************************************************************************)
Min(a, b) == IF a < b THEN a ELSE b

\* the station lists the access point can report, each station given by the
\* address its DHCP lease resolves to (0: no lease)
LeaseAddrs == {0, 1}
StaLists == UNION {[1 .. n -> LeaseAddrs] : n \in 0 .. MaxStaNum}

\* how one call of ping_client_ip goes: a reply before the end of the
\* session, no reply, neither a reply nor the end callback of the session,
\* or no session / no semaphore could be created
PingOutcomes == {"reply", "noreply", "never", "nosession", "nosem"}

\* the outcomes in which ping_client_ip starts a session and waits for it
PingWaited == {"reply", "noreply", "never"}

\* index of the first station with a lease (0: none)
FirstResolved(p) ==
    IF \E i \in 1 .. Len(p) : p[i] # 0
    THEN CHOOSE i \in 1 .. Len(p) : p[i] # 0 /\ \A j \in 1 .. i - 1 : p[j] = 0
    ELSE 0

\* the outcomes the i-th client of the list p can produce: the silent
\* client, the first one with a lease, never replies
OutcomesOf(p, i) ==
    IF clientSilent /\ i = FirstResolved(p)
    THEN PingOutcomes \ {"reply"}
    ELSE PingOutcomes

\* mqtt_broker_get_obk_connected_state(): -1 unless the mutex exists and is
\* taken within 5 ms
mqtt_broker_get_obk_connected_state(taken) ==
    IF g_obk_mutex /\ taken THEN g_obk_connected_state ELSE OBK_UNKNOWN

\* handle_obk_message on OBK_CONNECTED_TOPIC: the state the payload selects
ObkStateAfter(payload, state) ==
    IF payload = "online" THEN OBK_ONLINE
    ELSE IF payload = "offline" THEN OBK_OFFLINE
    ELSE state

\* the watchdog skips the check only when the state is unknown
Suppressed_OnlyUnknown(state) ==
    state < 0

\* watchdog_task: if (mqtt_broker_get_obk_connected_state() != 0) skip the check
Suppressed(state) ==
    state # 0

\* every station is probed, with or without a lease
SkipClient_Never(addr) ==
    FALSE

\* ping_connected_clients: if (pairs[i].ip.addr == 0) continue
SkipClient(addr) ==
    addr = 0

\* a probe counts as passed whatever its outcome
ping_client_ip_AlwaysTrue(outcome) ==
    TRUE

\* ping_client_ip returns result.success: true only after ping_on_success ran
ping_client_ip(outcome) ==
    outcome = "reply"

\* the wait for the session returns only when the semaphore is given
WaitReturns_OnlyOnGive(fate) ==
    fate # "never"

\* ping_client_ip: xSemaphoreTake(result.done, timeout_ms + 200) returns when
\* ping_on_end gave the semaphore, and at the latest when the time is up
WaitReturns(fate) ==
    TRUE

\* time ping_client_ip spends in xSemaphoreTake
WaitTime(fate) ==
    IF fate = "reply" THEN 0 ELSE PingWaitMs

\* the semaphore is not deleted when the wait timed out
vSemaphoreDelete_NotOnTimeout(fate, sems) ==
    IF fate = "never" THEN sems ELSE sems - 1

\* ping_client_ip: vSemaphoreDelete(result.done), on the path that failed to
\* create a session and at the end of every wait
vSemaphoreDelete(fate, sems) ==
    sems - 1

\* ping_client_ip: esp_ping_stop; esp_ping_delete_session at the end of
\* every wait
esp_ping_delete_session(fate, sessions) ==
    sessions - 1

\* a failed query makes the check fail
QueryFaultResult_Failure(fault) ==
    FALSE

\* ping_connected_clients: the station list, the AP netif or the lease
\* lookup failed: return true
QueryFaultResult(fault) ==
    TRUE

\* watchdog_task goes on while ap_restart is still running
ap_restart_call_Detached(pc) ==
    "delay"

\* watchdog_task is inside the call of ap_restart until it returns
ap_restart_call(pc) ==
    "in_restart"

\* the watchdog restarts the access point when the check succeeded
RestartWanted_Inverted(result) ==
    result

\* the watchdog never restarts the access point
RestartWanted_Never(result) ==
    FALSE

\* watchdog_task: if (!ping_connected_clients()) restart the access point
RestartWanted(result) ==
    ~result

\* ping_connected_clients, up to the loop: n after the clamp
ClampedNum(num) ==
    IF num > AP_MAX_CONN THEN AP_MAX_CONN ELSE num

\* time passes for every task subscribed to the timer
Elapse(ms) ==
    twdtSince' = [t \in DOMAIN twdtSince |->
                    IF t \in twdtSubscribed
                    THEN Min(twdtSince[t] + ms, twdtTimeoutMs)
                    ELSE twdtSince[t]]

\* watchdog_task does not confirm its liveness
esp_task_wdt_reset_Missing(t) ==
    UNCHANGED twdtSince

\* esp_task_wdt_reset() on behalf of task t
esp_task_wdt_reset(t) ==
    twdtSince' = [twdtSince EXCEPT ![t] = 0]

\* watchdog_start: .trigger_panic = false
TriggerPanic == FALSE

\* watchdog_start creates a feed task on every call
FeedTaskWanted_Always(handle) ==
    TRUE

\* watchdog_start: if (watchdog_task_handle == NULL) xTaskCreate(watchdog_task, ..)
FeedTaskWanted(handle) ==
    ~handle

\* watchdog_deinit leaves the feed task running
vTaskDelete_Missing(pc) ==
    pc

\* watchdog_deinit: vTaskDelete(watchdog_task_handle): the task is removed
\* wherever it is and takes no further step
vTaskDelete(pc) ==
    "none"

\* watchdog_task runs: it is not stuck and the chip has not been reset
Running == ~wdHung /\ ~deviceReset

(***************************************************************************)
(* watchdog_start                                                          *)
(***************************************************************************)
\* the result of esp_task_wdt_init(&config)
esp_task_wdt_init(noMem) ==
    IF twdtInit THEN "ESP_ERR_INVALID_STATE"
    ELSE IF noMem THEN "ESP_ERR_NO_MEM"
    ELSE "ESP_OK"

\* watchdog_start(timeout_seconds, period_ms); noMem: esp_task_wdt_init
\* cannot allocate the timer
watchdog_start(timeout_seconds, period_ms, noMem) ==
    /\ ~deviceReset
    /\ wdStarts < MaxWdStarts
    /\ wdStarts' = wdStarts + 1
    /\    LET err == esp_task_wdt_init(noMem)
              added == {CallerTask} \cup
                       (IF FeedTaskWanted(watchdog_task_handle)
                        THEN {FeedTask} ELSE {})
          IN  /\ feed_period_ms' = period_ms
              /\ IF err \notin {"ESP_OK", "ESP_ERR_INVALID_STATE"}
                 THEN UNCHANGED <<watchdog_task_handle, wdPc, twdtVars, twdtPanic,
                                  wdTasks>>
                 ELSE /\ twdtInit' = TRUE
                      /\ twdtTimeoutMs' = IF err = "ESP_OK"
                                          THEN timeout_seconds * 1000
                                          ELSE twdtTimeoutMs
                      /\ twdtPanic' = IF err = "ESP_OK"
                                      THEN TriggerPanic
                                      ELSE twdtPanic
                      /\ twdtSubscribed' = twdtSubscribed \cup added
                      /\ twdtSince' = [t \in DOMAIN twdtSince |->
                                         IF t \in added \ twdtSubscribed
                                         THEN 0 ELSE twdtSince[t]]
                      /\ watchdog_task_handle' = TRUE
                      /\ wdPc' = IF FeedTaskWanted(watchdog_task_handle)
                                 THEN "feed" ELSE wdPc
                      /\ wdTasks' = IF FeedTaskWanted(watchdog_task_handle)
                                    THEN wdTasks + 1 ELSE wdTasks
    /\ UNCHANGED <<pairs, wdI, g_obk_mutex, g_obk_connected_state, cycVars,
                   prevProbeFailed, epRestarts>>
    /\ UNCHANGED <<pingVars, apRestartsInFlight, twdtTripped, deviceReset, envVars,
                   cycQueryFault>>

WatchdogStart ==
    /\ \E timeout_seconds \in TimeoutSecondsSet, period_ms \in PeriodMsSet,
          noMem \in BOOLEAN :
          watchdog_start(timeout_seconds, period_ms, noMem)
    /\ UNCHANGED <<linkVars, auxVars>>

(***************************************************************************)
(* watchdog_task, one action per blocking or externally visible step       *)
(***************************************************************************)
\* top of the loop: esp_task_wdt_reset(); a new monitoring period begins
WdFeed ==
    /\ wdPc = "feed"
    /\ Running
    /\ esp_task_wdt_reset(FeedTask)
    /\ wdPc' = "read"
    /\ pairs' = <<>>
    /\ wdI' = 1
    /\ cycFed' = 1
    /\ cycState' = <<>>
    /\ cycStaNum' = -1
    /\ cycEnumerated' = FALSE
    /\ cycProbed' = {}
    /\ cycProbeFailed' = FALSE
    /\ cycResult' = "none"
    /\ cycRestarts' = 0
    /\ cycQueryFault' = "none"
    /\ prevProbeFailed' = cycProbeFailed
    /\ UNCHANGED <<watchdog_task_handle, feed_period_ms, wdStarts, twdtInit,
                   twdtTimeoutMs, twdtSubscribed, g_obk_mutex,
                   g_obk_connected_state, epRestarts>>
    /\ UNCHANGED <<linkVars, auxVars, wdTasks>>
    /\ UNCHANGED <<pingVars, apRestartsInFlight, expiryVars, envVars>>

\* mqtt_broker_get_obk_connected_state() and the test of its result
WdReadState ==
    /\ wdPc = "read"
    /\ Running
    /\ \E taken \in BOOLEAN :
          LET state == mqtt_broker_get_obk_connected_state(taken)
          IN  /\ cycState' = <<state>>
              /\ wdPc' = IF Suppressed(state) THEN "delay" ELSE "enum"
    /\ UNCHANGED <<watchdog_task_handle, feed_period_ms, wdStarts, pairs, wdI,
                   twdtVars, g_obk_mutex, g_obk_connected_state, cycFed,
                   cycStaNum, cycEnumerated, cycProbed, cycProbeFailed,
                   cycResult, cycRestarts, prevProbeFailed, epRestarts>>
    /\ UNCHANGED <<linkVars, auxVars, wdTasks>>
    /\ UNCHANGED <<pingVars, apRestartsInFlight, expiryVars, envVars, cycQueryFault>>

\* where watchdog_task continues when ping_connected_clients has returned
AfterCheck(result) ==
    IF RestartWanted(result) THEN "restart" ELSE "delay"

\* ping_connected_clients up to its loop: the station list, the AP netif and
\* the lease lookup
WdEnumerate ==
    /\ wdPc = "enum"
    /\ Running
    /\ \E staOk \in BOOLEAN, leases \in StaLists, netifOk \in BOOLEAN,
          dhcpOk \in BOOLEAN :
          LET num == Len(leases)
              n == ClampedNum(num)
              fault == IF ~staOk THEN "sta_list"
                       ELSE IF num = 0 THEN "none"
                       ELSE IF ~netifOk THEN "netif"
                       ELSE IF ~dhcpOk THEN "dhcp"
                       ELSE "none"
          IN  /\ clientSilent =>
                    (staOk /\ netifOk /\ dhcpOk /\ \E i \in 1 .. n : leases[i] # 0)
              /\ cycEnumerated' = TRUE
              /\ cycStaNum' = IF staOk THEN num ELSE -1
              /\ cycQueryFault' = fault
              /\ IF fault # "none"
                 THEN /\ pairs' = IF fault = "dhcp" THEN [i \in 1 .. n |-> 0]
                                  ELSE <<>>
                      /\ cycResult' = IF QueryFaultResult(fault)
                                      THEN "success" ELSE "failure"
                      /\ wdPc' = AfterCheck(QueryFaultResult(fault))
                 ELSE IF num = 0
                 THEN /\ pairs' = <<>>
                      /\ cycResult' = "success"
                      /\ wdPc' = AfterCheck(TRUE)
                 ELSE /\ pairs' = [i \in 1 .. n |-> leases[i]]
                      /\ cycResult' = "none"
                      /\ wdPc' = "probe"
    /\ wdI' = 1
    /\ UNCHANGED <<watchdog_task_handle, feed_period_ms, wdStarts, twdtVars,
                   g_obk_mutex, g_obk_connected_state, cycFed, cycState,
                   cycProbed, cycProbeFailed, cycRestarts, prevProbeFailed,
                   epRestarts>>
    /\ UNCHANGED <<linkVars, auxVars, wdTasks>>
    /\ UNCHANGED <<pingVars, apRestartsInFlight, expiryVars, envVars>>

\* ping_connected_clients, one pass of its loop (or its end), up to the
\* wait inside ping_client_ip
WdProbe ==
    /\ wdPc = "probe"
    /\ Running
    /\ IF wdI > Len(pairs)
       THEN /\ cycResult' = "success"
            /\ wdPc' = AfterCheck(TRUE)
            /\ UNCHANGED <<wdI, cycProbed, cycProbeFailed, pingVars>>
       ELSE IF SkipClient(pairs[wdI])
       THEN /\ wdI' = wdI + 1
            /\ UNCHANGED <<wdPc, cycResult, cycProbed, cycProbeFailed, pingVars>>
       ELSE \E outcome \in OutcomesOf(pairs, wdI) :
               /\ cycProbed' = cycProbed \cup {wdI}
               /\ IF outcome \in PingWaited
                  THEN \* semaphore and session exist, the session is started
                       /\ probeSems' = probeSems + 1
                       /\ probeSessions' = probeSessions + 1
                       /\ pingFate' = outcome
                       /\ wdPc' = "ping_wait"
                       /\ UNCHANGED <<wdI, cycResult, cycProbeFailed>>
                  ELSE \* no semaphore, or a semaphore and no session
                       /\ probeSems' =
                             IF outcome = "nosession"
                             THEN vSemaphoreDelete(outcome, probeSems + 1)
                             ELSE probeSems
                       /\ cycProbeFailed' = TRUE
                       /\ cycResult' = "failure"
                       /\ wdPc' = AfterCheck(FALSE)
                       /\ UNCHANGED <<wdI, probeSessions, pingFate>>
    /\ UNCHANGED <<watchdog_task_handle, feed_period_ms, wdStarts, pairs,
                   twdtVars, g_obk_mutex, g_obk_connected_state, cycFed,
                   cycState, cycStaNum, cycEnumerated, cycRestarts,
                   prevProbeFailed, epRestarts>>
    /\ UNCHANGED <<linkVars, auxVars, wdTasks>>
    /\ UNCHANGED <<apRestartsInFlight, expiryVars, envVars, cycQueryFault>>

\* ping_client_ip from xSemaphoreTake to its return
WdPingWait ==
    /\ wdPc = "ping_wait"
    /\ Running
    /\ WaitReturns(pingFate)
    /\ Elapse(WaitTime(pingFate))
    /\ probeSessions' = esp_ping_delete_session(pingFate, probeSessions)
    /\ probeSems' = vSemaphoreDelete(pingFate, probeSems)
    /\ pingFate' = "none"
    /\ IF ping_client_ip(pingFate)
       THEN /\ wdI' = wdI + 1
            /\ wdPc' = "probe"
            /\ UNCHANGED <<cycResult, cycProbeFailed>>
       ELSE /\ cycProbeFailed' = TRUE
            /\ cycResult' = "failure"
            /\ wdPc' = AfterCheck(FALSE)
            /\ UNCHANGED wdI
    /\ UNCHANGED <<watchdog_task_handle, feed_period_ms, wdStarts, pairs,
                   twdtInit, twdtTimeoutMs, twdtSubscribed, g_obk_mutex,
                   g_obk_connected_state, cycFed, cycState, cycStaNum,
                   cycEnumerated, cycProbed, cycRestarts, prevProbeFailed,
                   epRestarts>>
    /\ UNCHANGED <<linkVars, auxVars, wdTasks>>
    /\ UNCHANGED <<apRestartsInFlight, expiryVars, envVars, cycQueryFault>>

\* oled_blank_and_reset_screensaver(); ap_restart() is called
WdRestart ==
    /\ wdPc = "restart"
    /\ Running
    /\ cycRestarts' = cycRestarts + 1
    /\ epRestarts' = Min(epRestarts + 1, MaxEpisodeCount)
    /\ apRestartsInFlight' = apRestartsInFlight + 1
    /\ wdPc' = ap_restart_call(wdPc)
    /\ UNCHANGED <<watchdog_task_handle, feed_period_ms, wdStarts, pairs, wdI,
                   twdtVars, g_obk_mutex, g_obk_connected_state, cycFed,
                   cycState, cycStaNum, cycEnumerated, cycProbed,
                   cycProbeFailed, cycResult, prevProbeFailed>>
    /\ UNCHANGED <<linkVars, auxVars, wdTasks>>
    /\ UNCHANGED <<pingVars, expiryVars, envVars, cycQueryFault>>

\* ap_restart() has stopped and started the access point and returns
ApRestartReturn ==
    /\ apRestartsInFlight > 0
    /\ ~deviceReset
    /\ apRestartsInFlight' = apRestartsInFlight - 1
    /\ wdPc' = IF wdPc = "in_restart" THEN "delay" ELSE wdPc
    /\ UNCHANGED <<watchdog_task_handle, feed_period_ms, wdStarts, pairs, wdI,
                   twdtVars, g_obk_mutex, g_obk_connected_state, cycVars,
                   prevProbeFailed, epRestarts>>
    /\ UNCHANGED <<linkVars, auxVars, wdTasks>>
    /\ UNCHANGED <<pingVars, expiryVars, envVars, cycQueryFault>>

\* vTaskDelay(pdMS_TO_TICKS(feed_period_ms)); the failure episode ends with
\* a check that found no failure
WdDelay ==
    /\ wdPc = "delay"
    /\ Running
    /\ Elapse(feed_period_ms)
    /\ wdPc' = "feed"
    /\ epRestarts' = IF cycResult = "success" THEN 0 ELSE epRestarts
    /\ UNCHANGED <<watchdog_task_handle, feed_period_ms, wdStarts, pairs, wdI,
                   twdtInit, twdtTimeoutMs, twdtSubscribed, g_obk_mutex,
                   g_obk_connected_state, cycVars, prevProbeFailed>>
    /\ UNCHANGED <<linkVars, auxVars, wdTasks>>
    /\ UNCHANGED <<pingVars, apRestartsInFlight, expiryVars, envVars, cycQueryFault>>

(***************************************************************************)
(* Telemetry collaborator                                                  *)
(***************************************************************************)
\* mqtt_broker_init_telemetry
MqttInitTelemetry ==
    /\ ~g_obk_mutex
    /\ g_obk_mutex' = TRUE
    /\ UNCHANGED <<watchdog_task_handle, feed_period_ms, wdStarts, wdPc, pairs,
                   wdI, twdtVars, g_obk_connected_state, cycVars,
                   prevProbeFailed, epRestarts>>
    /\ UNCHANGED <<linkVars, auxVars, wdTasks>>
    /\ UNCHANGED <<pingVars, apRestartsInFlight, expiryVars, envVars, cycQueryFault>>

\* handle_obk_message(OBK_CONNECTED_TOPIC, payload, len), the mutex taken
ObkMessage ==
    /\ g_obk_mutex
    /\ \E payload \in {"online", "offline", "other"} :
          g_obk_connected_state' = ObkStateAfter(payload, g_obk_connected_state)
    /\ UNCHANGED <<watchdog_task_handle, feed_period_ms, wdStarts, wdPc, pairs,
                   wdI, twdtVars, g_obk_mutex, cycVars, prevProbeFailed,
                   epRestarts>>
    /\ UNCHANGED <<linkVars, auxVars, wdTasks>>
    /\ UNCHANGED <<pingVars, apRestartsInFlight, expiryVars, envVars, cycQueryFault>>

(***************************************************************************)
(* A stuck supervisor thread and the expiry of the task watchdog timer      *)
(***************************************************************************)
\* watchdog_task stops making progress (it is blocked or starved)
WdHang ==
    /\ watchdog_task_handle
    /\ Running
    /\ wdHung' = TRUE
    /\ UNCHANGED <<watchdog_task_handle, feed_period_ms, wdStarts, wdPc, pairs,
                   wdI, twdtVars, g_obk_mutex, g_obk_connected_state, cycVars,
                   prevProbeFailed, epRestarts, pingVars, apRestartsInFlight,
                   expiryVars, clientSilent, cycQueryFault>>
    /\ UNCHANGED <<linkVars, auxVars, wdTasks>>

\* the stuck task stays stuck for a whole timeout of the timer
HungElapse ==
    /\ wdHung
    /\ ~deviceReset
    /\ twdtSince[FeedTask] < twdtTimeoutMs
    /\ Elapse(twdtTimeoutMs)
    /\ UNCHANGED <<watchdog_task_handle, feed_period_ms, wdStarts, wdPc, pairs,
                   wdI, twdtInit, twdtTimeoutMs, twdtSubscribed, g_obk_mutex,
                   g_obk_connected_state, cycVars, prevProbeFailed, epRestarts,
                   pingVars, apRestartsInFlight, expiryVars, envVars,
                   cycQueryFault>>
    /\ UNCHANGED <<linkVars, auxVars, wdTasks>>

\* the timer expires for a subscribed task that did not reset it within
\* the timeout; the chip is reset only if trigger_panic is set
TwdtExpire ==
    /\ ~deviceReset
    /\ \E t \in twdtSubscribed \ twdtTripped :
          /\ twdtSince[t] >= twdtTimeoutMs
          /\ twdtTripped' = twdtTripped \cup {t}
    /\ deviceReset' = twdtPanic
    /\ UNCHANGED <<watchdog_task_handle, feed_period_ms, wdStarts, wdPc, pairs,
                   wdI, twdtVars, g_obk_mutex, g_obk_connected_state, cycVars,
                   prevProbeFailed, epRestarts, pingVars, apRestartsInFlight,
                   twdtPanic, envVars, cycQueryFault>>
    /\ UNCHANGED <<linkVars, auxVars, wdTasks>>

(***************************************************************************)
(* watchdog_deinit                                                         *)
(***************************************************************************)
\* the feed task, if there is one, is deleted and unsubscribed and its handle
\* cleared; a call of ap_restart it was in ends with it, a semaphore and a
\* ping session it was waiting for stay behind; the calling task is
\* unsubscribed and the timer deinitialised
WatchdogDeinit ==
    /\ ~deviceReset
    /\ IF watchdog_task_handle
       THEN /\ wdPc' = vTaskDelete(wdPc)
            /\ wdTasks' = wdTasks - 1
            /\ watchdog_task_handle' = FALSE
            /\ apRestartsInFlight' = 0
            /\ wdHung' = FALSE
       ELSE UNCHANGED <<wdPc, wdTasks, watchdog_task_handle, apRestartsInFlight,
                        wdHung>>
    /\ twdtInit' = FALSE
    /\ twdtTimeoutMs' = 0
    /\ twdtSubscribed' = {}
    /\ twdtSince' = [t \in DOMAIN twdtSince |-> 0]
    /\ twdtPanic' = FALSE
    /\ twdtTripped' = {}
    /\ UNCHANGED <<feed_period_ms, wdStarts, pairs, wdI, g_obk_mutex,
                   g_obk_connected_state, cycVars, prevProbeFailed, epRestarts,
                   pingVars, deviceReset, clientSilent, cycQueryFault>>
    /\ UNCHANGED <<linkVars, auxVars>>

WdInit ==
    /\ watchdog_task_handle = FALSE
    /\ wdTasks = 0
    /\ feed_period_ms = DefaultFeedPeriodMs
    /\ wdStarts = 0
    /\ wdPc = "none"
    /\ pairs = <<>>
    /\ wdI = 1
    /\ twdtInit \in BOOLEAN
    /\ twdtTimeoutMs \in IF twdtInit
                         THEN {1000 * t : t \in TimeoutSecondsSet}
                         ELSE {0}
    /\ twdtSubscribed = {}
    /\ twdtSince = [t \in {CallerTask, FeedTask} |-> 0]
    /\ g_obk_mutex = FALSE
    /\ g_obk_connected_state = OBK_UNKNOWN
    /\ cycFed = 0
    /\ cycState = <<>>
    /\ cycStaNum = -1
    /\ cycEnumerated = FALSE
    /\ cycProbed = {}
    /\ cycProbeFailed = FALSE
    /\ cycResult = "none"
    /\ cycRestarts = 0
    /\ prevProbeFailed = FALSE
    /\ epRestarts = 0
    /\ pingFate = "none"
    /\ probeSems = 0
    /\ probeSessions = 0
    /\ apRestartsInFlight = 0
    /\ twdtPanic \in IF twdtInit THEN BOOLEAN ELSE {FALSE}
    /\ twdtTripped = {}
    /\ deviceReset = FALSE
    /\ wdHung = FALSE
    /\ cycQueryFault = "none"

(***************************************************************************)
(* Telemetry collaborator, with the mutex: handle_obk_message and the      *)
(* getters of src/main/mqtt_broker.c                                       *)
(***************************************************************************)
\* the watchdog module's state without the telemetry state it reads
wdTaskVars == <<watchdog_task_handle, feed_period_ms, wdStarts, wdPc, pairs, wdI,
                twdtVars, cycVars, prevProbeFailed, epRestarts, pingVars,
                apRestartsInFlight, expiryVars, envVars, cycQueryFault>>

\* what the telemetry actions leave alone
obkRest == <<linkVars, wdTaskVars, brokerVars, wdTasks, otaVars, setVars,
             collectorVars,
        infoVars,
        oledVars,
        payloadVars,
        refVars,
        startVars,
        probeVars,
        clientVars,
        shutVars>>

OBK_POWER_TOPIC == "obk_wr/power/get"
OBK_CONNECTED_TOPIC == "obk_wr/connected"

\* the state the documentation of the getter assigns to a last recognised
\* connection-state message ("none": no such message yet)
ObkStateOf(m) ==
    IF m = "online" THEN OBK_ONLINE
    ELSE IF m = "offline" THEN OBK_OFFLINE
    ELSE OBK_UNKNOWN

\* the last recognised connection-state message after handle_obk_message
\* was called with msg
RecognisedAfter(msg, last) ==
    IF msg[1] = OBK_CONNECTED_TOPIC /\ msg[2] \in {"online", "offline"}
    THEN msg[2] ELSE last

\* xSemaphoreTake(g_obk_mutex, pdMS_TO_TICKS(5)) == pdTRUE: the mutex is free,
\* or becomes free within the wait
MutexTaken(holder) ==
    holder = "none"

\* handle_obk_message(topic, data, len) is called by the MQTT event handler
\* and tries to take the mutex; without the mutex it returns at once and the
\* message is lost
HandleObkMessage ==
    /\ g_obk_mutex
    /\ obkMsg = <<>>
    /\ \E topic \in {OBK_POWER_TOPIC, OBK_CONNECTED_TOPIC},
          payload \in {"online", "offline", "other"} :
          IF MutexTaken(obkHolder)
          THEN /\ obkHolder' = "handler"
               /\ obkMsg' = <<topic, payload>>
               /\ UNCHANGED lastRecognised
          ELSE /\ lastRecognised' = RecognisedAfter(<<topic, payload>>, lastRecognised)
               /\ UNCHANGED <<obkHolder, obkMsg>>
    /\ UNCHANGED <<obkReturned, g_obk_mutex, g_obk_connected_state>>
    /\ UNCHANGED obkRest

\* handle_obk_message with the mutex: the payload is applied, the mutex given
HandleObkGive ==
    /\ obkHolder = "handler"
    /\ g_obk_connected_state' =
          IF obkMsg[1] = OBK_CONNECTED_TOPIC
          THEN ObkStateAfter(obkMsg[2], g_obk_connected_state)
          ELSE g_obk_connected_state
    /\ lastRecognised' = RecognisedAfter(obkMsg, lastRecognised)
    /\ obkMsg' = <<>>
    /\ obkHolder' = "none"
    /\ UNCHANGED <<obkReturned, g_obk_mutex>>
    /\ UNCHANGED obkRest

\* mqtt_broker_get_obk_connected_state() is called (by watchdog_task, the
\* display task or the web server) and tries to take the mutex; without the
\* mutex it returns -1
GetStateTake ==
    /\ obkHolder # "getter"
    /\ IF g_obk_mutex /\ MutexTaken(obkHolder)
       THEN /\ obkHolder' = "getter"
            /\ UNCHANGED obkReturned
       ELSE /\ obkReturned' = <<mqtt_broker_get_obk_connected_state(FALSE),
                                lastRecognised>>
            /\ UNCHANGED obkHolder
    /\ UNCHANGED <<obkMsg, lastRecognised, g_obk_mutex, g_obk_connected_state>>
    /\ UNCHANGED obkRest

\* mqtt_broker_get_obk_connected_state() with the mutex: the state is read,
\* the mutex given, the state returned
GetStateGive ==
    /\ obkHolder = "getter"
    /\ obkReturned' = <<mqtt_broker_get_obk_connected_state(TRUE), lastRecognised>>
    /\ obkHolder' = "none"
    /\ UNCHANGED <<obkMsg, lastRecognised, g_obk_mutex, g_obk_connected_state>>
    /\ UNCHANGED obkRest

\* mqtt_broker_get_obk_power(out, out_len) takes the mutex
GetPowerTake ==
    /\ g_obk_mutex
    /\ MutexTaken(obkHolder)
    /\ obkHolder' = "power"
    /\ UNCHANGED <<obkMsg, obkReturned, lastRecognised, g_obk_mutex,
                   g_obk_connected_state>>
    /\ UNCHANGED obkRest

\* mqtt_broker_get_obk_power(out, out_len) gives the mutex
GetPowerGive ==
    /\ obkHolder = "power"
    /\ obkHolder' = "none"
    /\ UNCHANGED <<obkMsg, obkReturned, lastRecognised, g_obk_mutex,
                   g_obk_connected_state>>
    /\ UNCHANGED obkRest

ObkInit ==
    /\ obkHolder = "none"
    /\ obkMsg = <<>>
    /\ obkReturned = <<>>
    /\ lastRecognised = "none"

(***************************************************************************)
(* MQTT broker module: mqtt_broker_start and mqtt_broker_task.             *)
(* mqtt_broker_task has priority 8, mqtt_sub_task 7, above the tasks that  *)
(* call mqtt_broker_start: a created task runs at once up to the first     *)
(* call that can block, and the caller goes on only while the broker task  *)
(* is blocked.  The positions below are these calls.                       *)
(***************************************************************************)
\* the positions of mqtt_broker_task: in ESP_LOGI before s_broker_running =
\* true, in mosq_broker_run, in ESP_LOGW after s_broker_running = false
BrokerPositions == {"log_start", "run", "log_exit"}

\* mqtt_broker_task tasks that exist
BrokerTaskCount ==
    brokerTasks["log_start"] + brokerTasks["run"] + brokerTasks["log_exit"]

\* one task moves from position a to position b
BrokerMove(a, b) ==
    brokerTasks' = [brokerTasks EXCEPT ![a] = @ - 1, ![b] = @ + 1]

\* the start is refused only while the broker is inside mosq_broker_run
AlreadyRunning_OnlyFlag(task, running) ==
    running

\* mqtt_broker_start: if (s_broker_task || s_broker_running) return
AlreadyRunning(task, running) ==
    task \/ running

\* the subscriber task is created on every start
SubTaskWanted_Always(sub) ==
    TRUE

\* mqtt_broker_start: if (!s_sub_task) xTaskCreate(mqtt_sub_task, ..)
SubTaskWanted(sub) ==
    ~sub

\* what the broker actions leave alone
brokerRest == <<linkVars, wdTaskVars, obkVars, g_obk_connected_state, wdTasks,
                otaVars, setVars, collectorVars,
        infoVars,
        oledVars,
        payloadVars,
        refVars,
        startVars,
        probeVars,
        clientVars,
        shutVars>>

\* mqtt_broker_start() up to the creation of mqtt_broker_task, which fails
\* (no memory) or succeeds; the new task runs up to its ESP_LOGI
MqttBrokerStart ==
    /\ mbStartPc = "idle"
    /\ mbStartCalls < MaxBrokerStarts
    /\ mbStartCalls' = mbStartCalls + 1
    /\ IF AlreadyRunning(s_broker_task, s_broker_running)
       THEN /\ mbLastCall' = "refused"
            /\ UNCHANGED <<g_obk_mutex, s_broker_task, brokerTasks, mbStartPc>>
       ELSE /\ g_obk_mutex' = TRUE
            /\ mbStartPc' = "sub"
            /\ \E created \in BOOLEAN :
                  IF created
                  THEN /\ s_broker_task' = TRUE
                       /\ brokerTasks' = [brokerTasks EXCEPT !["log_start"] = @ + 1]
                       /\ mbLastCall' = "created"
                  ELSE /\ mbLastCall' = "failed"
                       /\ UNCHANGED <<s_broker_task, brokerTasks>>
    /\ UNCHANGED <<s_broker_running, s_sub_task, subTasks>>
    /\ UNCHANGED brokerRest

\* mqtt_broker_start(), the rest: the subscriber task is created unless its
\* handle is set; the creation fails or succeeds
MqttBrokerStartSub ==
    /\ mbStartPc = "sub"
    /\ mbStartPc' = "idle"
    /\ IF SubTaskWanted(s_sub_task)
       THEN \E created \in BOOLEAN :
               IF created
               THEN /\ s_sub_task' = TRUE
                    /\ subTasks' = subTasks + 1
               ELSE UNCHANGED <<s_sub_task, subTasks>>
       ELSE UNCHANGED <<s_sub_task, subTasks>>
    /\ UNCHANGED <<g_obk_mutex, s_broker_task, s_broker_running, mbStartCalls,
                   mbLastCall, brokerTasks>>
    /\ UNCHANGED brokerRest

\* mqtt_broker_task: s_broker_running = true; mosq_broker_run(&cfg) is entered
BrokerRun ==
    /\ brokerTasks["log_start"] > 0
    /\ BrokerMove("log_start", "run")
    /\ s_broker_running' = TRUE
    /\ UNCHANGED <<g_obk_mutex, s_broker_task, s_sub_task, mbStartPc,
                   mbStartCalls, mbLastCall, subTasks>>
    /\ UNCHANGED brokerRest

\* mqtt_broker_task: mosq_broker_run returns; s_broker_running = false
BrokerExit ==
    /\ brokerTasks["run"] > 0
    /\ BrokerMove("run", "log_exit")
    /\ s_broker_running' = FALSE
    /\ UNCHANGED <<g_obk_mutex, s_broker_task, s_sub_task, mbStartPc,
                   mbStartCalls, mbLastCall, subTasks>>
    /\ UNCHANGED brokerRest

\* mqtt_broker_task: s_broker_task = NULL; vTaskDelete(NULL)
BrokerDelete ==
    /\ brokerTasks["log_exit"] > 0
    /\ brokerTasks' = [brokerTasks EXCEPT !["log_exit"] = @ - 1]
    /\ s_broker_task' = FALSE
    /\ UNCHANGED <<g_obk_mutex, s_broker_running, s_sub_task, mbStartPc,
                   mbStartCalls, mbLastCall, subTasks>>
    /\ UNCHANGED brokerRest

BrokerInit ==
    /\ s_broker_task = FALSE
    /\ s_broker_running = FALSE
    /\ s_sub_task = FALSE
    /\ mbStartPc = "idle"
    /\ mbStartCalls = 0
    /\ mbLastCall = "none"
    /\ brokerTasks = [p \in BrokerPositions |-> 0]
    /\ subTasks = 0

(***************************************************************************)
(* Web server: ota_post_handler.  The positions are the calls that block:  *)
(* httpd_req_recv, the flash operations, and the delay before esp_restart. *)
(***************************************************************************)
\* sizeof(buf) of ota_post_handler
OTA_BUF_SIZE == 1024
\* httpd_req_recv: the socket timed out
HTTPD_SOCK_ERR_TIMEOUT == -3

\* what the OTA actions leave alone
otaRest == <<linkVars, wdVars, obkVars, brokerVars, wdTasks, setVars,
             collectorVars,
        infoVars,
        oledVars,
        payloadVars,
        refVars,
        startVars,
        probeVars,
        clientVars,
        shutVars>>

\* no error of the flash operations is taken for a failure
ota_failed_Never(err) ==
    FALSE

\* ota_post_handler: if (err != ESP_OK)
ota_failed(err) ==
    err # "ESP_OK"

\* what the flash operations return
OtaErrs == {"ESP_OK", "ESP_FAIL"}

\* s_ota_progress = (int)((written * 100U) / total), for sizes below 2^32 / 100
OtaProgress(written, total) ==
    (written * 100) \div total

\* every failure path: s_ota_in_progress = false; s_ota_progress = -1;
\* return ESP_FAIL
OtaFail(step) ==
    /\ otaFailure' = step
    /\ s_ota_in_progress' = FALSE
    /\ s_ota_progress' = -1
    /\ otaPc' = "idle"

\* ota_post_handler from its entry to the first httpd_req_recv
OtaBegin ==
    /\ otaPc = "idle"
    /\ ~otaRebooted
    /\ otaRequests < MaxOtaRequests
    /\ otaRequests' = otaRequests + 1
    /\ otaWritten' = 0
    /\ otaEnded' = FALSE
    /\ \E content_len \in 0 .. MaxImageLen, update_partition \in BOOLEAN,
          err \in OtaErrs :
          /\ otaTotal' = content_len
          /\ otaRemaining' = content_len
          /\ IF content_len = 0 THEN OtaFail("empty")
             ELSE IF ~update_partition THEN OtaFail("partition")
             ELSE IF ota_failed(err) THEN OtaFail("begin")
             ELSE /\ otaFailure' = "none"
                  /\ s_ota_in_progress' = TRUE
                  /\ s_ota_progress' = 0
                  /\ otaPc' = "recv"
    /\ UNCHANGED <<bootSwitched, otaRebooted>>
    /\ UNCHANGED otaRest

\* what httpd_req_recv(req, buf, n) can return: the time-out of the socket,
\* an error, 0 for a closed connection, or the size of the chunk received
RecvResults(n) ==
    {HTTPD_SOCK_ERR_TIMEOUT} \cup (-1 .. n)

\* one pass of the receive loop, httpd_req_recv returning one of results
ota_recv_pass(results) ==
    /\ otaPc = "recv"
    /\ \E recv_len \in results, err \in OtaErrs :
          IF recv_len = HTTPD_SOCK_ERR_TIMEOUT
          THEN UNCHANGED <<s_ota_in_progress, s_ota_progress, otaPc,
                           otaRemaining, otaWritten, otaFailure>>
          ELSE IF recv_len <= 0
          THEN /\ OtaFail("receive")
               /\ UNCHANGED <<otaRemaining, otaWritten>>
          ELSE IF ota_failed(err)
          THEN /\ OtaFail("write")
               /\ UNCHANGED <<otaRemaining, otaWritten>>
          ELSE /\ otaWritten' = otaWritten + recv_len
               /\ otaRemaining' = otaRemaining - recv_len
               /\ s_ota_progress' = OtaProgress(otaTotal - otaRemaining', otaTotal)
               /\ otaPc' = IF otaRemaining' > 0 THEN "recv" ELSE "end"
               /\ UNCHANGED <<s_ota_in_progress, otaFailure>>
    /\ UNCHANGED <<otaTotal, otaRequests, otaEnded, bootSwitched, otaRebooted>>

\* one pass of the receive loop: httpd_req_recv returns, the chunk is written
OtaRecv ==
    /\ ota_recv_pass(RecvResults(Min(otaRemaining, OTA_BUF_SIZE)))
    /\ UNCHANGED otaRest

\* esp_ota_end(ota_handle)
OtaEnd ==
    /\ otaPc = "end"
    /\ \E err \in OtaErrs :
          IF ota_failed(err)
          THEN /\ OtaFail("end")
               /\ UNCHANGED otaEnded
          ELSE /\ otaEnded' = (err = "ESP_OK")
               /\ otaPc' = "set_boot"
               /\ UNCHANGED <<s_ota_in_progress, s_ota_progress, otaFailure>>
    /\ UNCHANGED <<otaTotal, otaRemaining, otaRequests, otaWritten,
                   bootSwitched, otaRebooted>>
    /\ UNCHANGED otaRest

\* esp_ota_set_boot_partition(update_partition); on success s_ota_progress =
\* 100, the response is sent and the handler waits 500 ms
OtaSetBoot ==
    /\ otaPc = "set_boot"
    /\ \E err \in OtaErrs :
          /\ bootSwitched' = (err = "ESP_OK")
          /\ IF ota_failed(err)
             THEN OtaFail("set_boot")
             ELSE /\ s_ota_progress' = 100
                  /\ otaPc' = "respond"
                  /\ UNCHANGED <<s_ota_in_progress, otaFailure>>
    /\ UNCHANGED <<otaTotal, otaRemaining, otaRequests, otaWritten, otaEnded,
                   otaRebooted>>
    /\ UNCHANGED otaRest

\* esp_restart()
OtaRestart ==
    /\ otaPc = "respond"
    /\ otaRebooted' = TRUE
    /\ otaPc' = "rebooted"
    /\ UNCHANGED <<s_ota_in_progress, s_ota_progress, otaTotal, otaRemaining,
                   otaRequests, otaWritten, otaEnded, otaFailure, bootSwitched>>
    /\ UNCHANGED otaRest

OtaInit ==
    /\ s_ota_in_progress = FALSE
    /\ s_ota_progress = -1
    /\ otaPc = "idle"
    /\ otaTotal = 0
    /\ otaRemaining = 0
    /\ otaRequests = 0
    /\ otaWritten = 0
    /\ otaEnded = FALSE
    /\ otaFailure = "none"
    /\ bootSwitched = FALSE
    /\ otaRebooted = FALSE

(***************************************************************************)
(* Web server: set_post_handler, with save_ap_config_to_nvs and            *)
(* apply_ap_config_and_restart (src/main/ppp_usb_main.c).                  *)
(***************************************************************************)
\* the characters of a field after url_decode_inplace; "%00" decodes to NUL
NUL == "NUL"

\* the field of k characters with a NUL at position p (p = 0: without NUL)
Field(k, p) == [i \in 1 .. k |-> IF i = p THEN NUL ELSE "a"]

\* the fields of at most n characters
Fields(n) == UNION {{Field(k, p) : p \in 0 .. k} : k \in 0 .. n}

\* the C string a buffer holds: the characters before the first NUL
RECURSIVE CStr(_)
CStr(buf) ==
    IF buf = <<>> \/ Head(buf) = NUL THEN <<>>
    ELSE <<Head(buf)>> \o CStr(Tail(buf))

\* strlen(buf)
strlen(buf) == Len(CStr(buf))

\* shortest password WPA2 accepts
MIN_PASS_LEN == 8

\* passwords of seven characters pass
PassRejected_Below7(pass) ==
    strlen(pass) > 0 /\ strlen(pass) < MIN_PASS_LEN - 1

\* set_post_handler: if (strlen(pass) > 0 && strlen(pass) < 8)
PassRejected(pass) ==
    strlen(pass) > 0 /\ strlen(pass) < MIN_PASS_LEN

\* set_post_handler: if (strlen(ssid) == 0)
SsidRejected(ssid) ==
    strlen(ssid) = 0

\* how save_ap_config_to_nvs can end: ESP_OK, or the step that failed
NvsOutcomes == {"ESP_OK", "nvs_open", "set_ssid", "set_pass", "nvs_commit"}

\* the keys in NVS after save_ap_config_to_nvs(ssid, pass): a key is stored
\* when its nvs_set_str succeeded
NvsAfter(outcome, ssid, pass, stored) ==
    IF outcome = "nvs_open" \/ outcome = "set_ssid" THEN stored
    ELSE IF outcome = "set_pass" THEN <<CStr(ssid), stored[2]>>
    ELSE <<CStr(ssid), CStr(pass)>>

DEFAULT_AP_SSID ==
    <<"E", "S", "P", "3", "2", "C", "3", "-", "P", "P", "P", "-", "A", "P">>
DEFAULT_AP_PASS ==
    <<"1", "2", "3", "4", "5", "6", "7", "8">>

\* what the /set actions leave alone
setRest == <<linkVars, wdVars, obkVars, brokerVars, wdTasks, otaVars,
             collectorVars,
        infoVars,
        oledVars,
        payloadVars,
        refVars,
        startVars,
        probeVars,
        clientVars,
        shutVars>>

\* set_post_handler from httpd_req_recv to esp_wifi_stop in
\* apply_ap_config_and_restart, or to the return of a request that is
\* rejected or could not be persisted
SetPost ==
    /\ setPc = "idle"
    /\ setRequests < MaxSetRequests
    /\ setRequests' = setRequests + 1
    /\ \E len \in {0, 1} :
          IF len <= 0
          THEN /\ setLast' = [len |-> len, ssid |-> 0, pass |-> 0, nvs |-> "none"]
               /\ UNCHANGED <<g_ap_ssid, g_ap_pass, nvsCreds, setPc, setApRestarts>>
          ELSE \E ssid \in Fields(MaxSsidLen), pass \in Fields(MaxPassLen) :
             IF SsidRejected(ssid) \/ PassRejected(pass)
             THEN /\ setLast' = [len |-> len, ssid |-> strlen(ssid),
                                 pass |-> strlen(pass), nvs |-> "none"]
                  /\ UNCHANGED <<g_ap_ssid, g_ap_pass, nvsCreds, setPc,
                                 setApRestarts>>
             ELSE \E nvs \in NvsOutcomes :
                /\ setLast' = [len |-> len, ssid |-> strlen(ssid),
                               pass |-> strlen(pass), nvs |-> nvs]
                /\ nvsCreds' = NvsAfter(nvs, ssid, pass, nvsCreds)
                /\ IF nvs # "ESP_OK"
                   THEN UNCHANGED <<g_ap_ssid, g_ap_pass, setPc, setApRestarts>>
                   ELSE /\ g_ap_ssid' = CStr(ssid)
                        /\ g_ap_pass' = CStr(pass)
                        /\ setApRestarts' = setApRestarts + 1
                        /\ setPc' = "restart"
    /\ UNCHANGED setRest

\* apply_ap_config_and_restart has started the access point again; the
\* handler answers 303 and returns
SetRestartReturn ==
    /\ setPc = "restart"
    /\ setPc' = "idle"
    /\ UNCHANGED <<g_ap_ssid, g_ap_pass, nvsCreds, setRequests, setApRestarts,
                   setLast>>
    /\ UNCHANGED setRest

SetInit ==
    /\ g_ap_ssid = DEFAULT_AP_SSID
    /\ g_ap_pass = DEFAULT_AP_PASS
    /\ nvsCreds = << <<>>, <<>> >>
    /\ setPc = "idle"
    /\ setRequests = 0
    /\ setApRestarts = 0
    /\ setLast = [len |-> 0, ssid |-> 0, pass |-> 0, nvs |-> "none"]

(***************************************************************************)
(* The collector: main of mqtt_to_sqlite.c, with env_or_default_int,       *)
(* on_signal and run_network_repair_script.                                *)
(***************************************************************************)
\* getenv found no variable of the name
NULL == <<"NULL">>

DecimalDigits == <<"0", "1", "2", "3", "4", "5", "6", "7", "8", "9">>

isdigit(c) == \E d \in 1 .. 10 : DecimalDigits[d] = c

DigitValue(c) == (CHOOSE d \in 1 .. 10 : DecimalDigits[d] = c) - 1

\* strtol skips white space before the number
RECURSIVE SkipSpace(_)
SkipSpace(s) ==
    IF s # <<>> /\ Head(s) = " " THEN SkipSpace(Tail(s)) ELSE s

\* the digits at the head of s: <<their value after acc, the rest of s>>
RECURSIVE ParseDigits(_, _)
ParseDigits(s, acc) ==
    IF s # <<>> /\ isdigit(Head(s))
    THEN ParseDigits(Tail(s), acc * 10 + DigitValue(Head(s)))
    ELSE <<acc, s>>

\* strtol(v, &end, 10) for texts of fewer than ten digits: x is the value,
\* end the text from the first character that was not converted (v itself
\* when there is no number)
strtol(v) ==
    LET t == SkipSpace(v)
        signed == t # <<>> /\ Head(t) \in {"-", "+"}
        u == IF signed THEN Tail(t) ELSE t
        p == ParseDigits(u, 0)
    IN  IF p[2] = u
        THEN [x |-> 0, end |-> v]
        ELSE [x |-> IF signed /\ Head(t) = "-" THEN -p[1] ELSE p[1],
              end |-> p[2]]

\* largest value env_or_default_int accepts
ENV_INT_MAX == 1000000

\* env_or_default_int, v being what getenv(name) returned
env_or_default_int(v, defval) ==
    IF v = NULL \/ v = <<>> THEN defval
    ELSE LET r == strtol(v)
         IN  IF r.end = v \/ r.end # <<>> THEN defval
             ELSE IF r.x < 0 \/ r.x > ENV_INT_MAX THEN defval
             ELSE r.x

\* what the environment can hold for a variable read as a number
EnvValues ==
    { NULL, <<>>, <<"0">>, <<"1">>, <<" ", "3">>, <<"-", "1">>, <<"2", "x">>,
      <<"1", "0", "0", "0", "0", "0", "0">>,
      <<"1", "0", "0", "0", "0", "0", "1">> }

\* the defaults of main for RECONNECT_MIN_S, RECONNECT_MAX_S and
\* RETRY_SLEEP_AFTER_SCRIPT_S
DEFAULT_RECONNECT_MIN == 2
DEFAULT_RECONNECT_MAX == 60
DEFAULT_SLEEP_AFTER_SCRIPT == 5

MOSQ_ERR_SUCCESS == "MOSQ_ERR_SUCCESS"

\* what mosquitto_loop and mosquitto_reconnect return
MosqResults ==
    {MOSQ_ERR_SUCCESS, "MOSQ_ERR_NO_CONN", "MOSQ_ERR_CONN_LOST", "MOSQ_ERR_ERRNO"}

\* how run_network_repair_script ends: not run (throttled), system() failed,
\* or the script ran and exited with 0 or with another code
ScriptResults == {"throttled", "system_failed", "exit_0", "exit_1"}

\* what the collector's actions leave alone
collectorRest == <<linkVars, wdVars, obkVars, brokerVars, wdTasks, otaVars,
                   setVars,
        infoVars,
        oledVars,
        payloadVars,
        refVars,
        startVars,
        probeVars,
        clientVars,
        shutVars>>

\* an error of mosquitto_loop ends the program
AfterLoopError_Exit(rc) ==
    "exited"

\* main: after an error of mosquitto_loop the repair script is run
AfterLoopError(rc) ==
    "repair"

\* main: if (backoff < g_reconnect_max) { backoff *= 2; if (backoff >
\* g_reconnect_max) backoff = g_reconnect_max; }; the product stays below
\* 2 * ENV_INT_MAX, inside an int
NextBackoff(b, max) ==
    IF b < max
    THEN (IF b * 2 > max THEN max ELSE b * 2)
    ELSE b

\* main from its entry to the loop: the environment is read, the signal
\* handlers are installed, the first connect is tried (its failure is logged)
collector_start(env) ==
    /\ collPc = "boot"
    /\ \E vmin \in env, vmax \in env, vsleep \in env :
          /\ g_reconnect_min' = env_or_default_int(vmin, DEFAULT_RECONNECT_MIN)
          /\ g_reconnect_max' = env_or_default_int(vmax, DEFAULT_RECONNECT_MAX)
          /\ g_sleep_after_script' =
                env_or_default_int(vsleep, DEFAULT_SLEEP_AFTER_SCRIPT)
    /\ backoff' = g_reconnect_min'
    /\ collPc' = "loop"
    /\ UNCHANGED <<g_should_stop, collWait, collFails, collErrors, collLast,
                   collScript, collSignal>>

CollectorStart ==
    /\ collector_start(EnvValues)
    /\ UNCHANGED collectorRest

\* on_signal, installed for SIGINT and SIGTERM
OnSignal ==
    /\ collPc \notin {"boot", "exited"}
    /\ \E sig \in {"SIGINT", "SIGTERM"} : collSignal' = sig
    /\ g_should_stop' = TRUE
    /\ UNCHANGED <<g_reconnect_min, g_reconnect_max, g_sleep_after_script,
                   backoff, collPc, collWait, collFails, collErrors, collLast,
                   collScript>>
    /\ UNCHANGED collectorRest

\* the main loop goes on whatever the flag says
MainLoopEnds_Never(stop) ==
    FALSE

\* main: while (!g_should_stop)
MainLoopEnds(stop) ==
    stop

\* one pass of while (!g_should_stop): the loop is left and the program
\* shuts down, or mosquitto_loop is called
collector_loop_pass ==
    /\ collPc = "loop"
    /\ IF MainLoopEnds(g_should_stop)
       THEN /\ collPc' = "exited"
            /\ UNCHANGED <<backoff, collFails, collErrors, collLast>>
       ELSE \E rc \in MosqResults :
               IF rc = MOSQ_ERR_SUCCESS
               THEN /\ backoff' = g_reconnect_min
                    /\ collLast' = "loop_ok"
                    /\ UNCHANGED <<collPc, collFails, collErrors>>
               ELSE /\ collErrors < MaxLoopErrors
                    /\ collErrors' = collErrors + 1
                    /\ collLast' = "loop_error"
                    /\ collPc' = AfterLoopError(rc)
                    /\ UNCHANGED <<backoff, collFails>>
    /\ UNCHANGED <<g_reconnect_min, g_reconnect_max, g_sleep_after_script,
                   g_should_stop, collWait, collScript, collSignal>>

CollectorLoop ==
    /\ collector_loop_pass
    /\ UNCHANGED collectorRest

\* run_network_repair_script(); its result is not looked at
CollectorRepair ==
    /\ collPc = "repair"
    /\ \E res \in ScriptResults : collScript' = res
    /\ collPc' = IF g_sleep_after_script > 0 THEN "settle" ELSE "reconnect"
    /\ UNCHANGED <<g_reconnect_min, g_reconnect_max, g_sleep_after_script,
                   g_should_stop, backoff, collWait, collFails, collErrors,
                   collLast, collSignal>>
    /\ UNCHANGED collectorRest

\* the sleep after the repair script, ended early by a signal
CollectorSettle ==
    /\ collPc = "settle"
    /\ collPc' = "reconnect"
    /\ UNCHANGED <<g_reconnect_min, g_reconnect_max, g_sleep_after_script,
                   g_should_stop, backoff, collWait, collFails, collErrors,
                   collLast, collScript, collSignal>>
    /\ UNCHANGED collectorRest

\* one pass of the reconnect loop up to its sleep: the loop is left for the
\* main loop when a signal came or mosquitto_reconnect succeeded; after a
\* failure the wait of backoff seconds is announced and begun
CollectorReconnect ==
    /\ collPc = "reconnect"
    /\ IF g_should_stop
       THEN /\ collPc' = "loop"
            /\ UNCHANGED <<backoff, collWait, collFails, collLast>>
       ELSE \E rc2 \in MosqResults :
               IF rc2 = MOSQ_ERR_SUCCESS
               THEN /\ backoff' = g_reconnect_min
                    /\ collLast' = "reconnect_ok"
                    /\ collFails' = 0
                    /\ collPc' = "loop"
                    /\ UNCHANGED collWait
               ELSE /\ collFails < MaxReconnectFails
                    /\ collFails' = collFails + 1
                    /\ collLast' = "reconnect_failed"
                    /\ collWait' = backoff
                    /\ collPc' = "wait"
                    /\ UNCHANGED backoff
    /\ UNCHANGED <<g_reconnect_min, g_reconnect_max, g_sleep_after_script,
                   g_should_stop, collErrors, collScript, collSignal>>
    /\ UNCHANGED collectorRest

\* the wait is over, or a signal has ended it; backoff is raised
CollectorWait ==
    /\ collPc = "wait"
    /\ backoff' = NextBackoff(backoff, g_reconnect_max)
    /\ collPc' = "reconnect"
    /\ UNCHANGED <<g_reconnect_min, g_reconnect_max, g_sleep_after_script,
                   g_should_stop, collWait, collFails, collErrors, collLast,
                   collScript, collSignal>>
    /\ UNCHANGED collectorRest

\* the static initialisers of mqtt_to_sqlite.c
CollectorInit ==
    /\ g_reconnect_min = DEFAULT_RECONNECT_MIN
    /\ g_reconnect_max = DEFAULT_RECONNECT_MAX
    /\ g_sleep_after_script = DEFAULT_SLEEP_AFTER_SCRIPT
    /\ g_should_stop = FALSE
    /\ backoff = 0
    /\ collPc = "boot"
    /\ collWait = 0
    /\ collFails = 0
    /\ collErrors = 0
    /\ collLast = "none"
    /\ collScript = "none"
    /\ collSignal = "none"

(***************************************************************************)
(* ppp_get_ip_info, called by status_all_get_handler in the httpd task     *)
(* while the link engine runs in the tcpip thread, which has the higher    *)
(* priority; no lock is taken on either side.                              *)
(***************************************************************************)
\* what the reader's actions leave alone
infoRest == <<linkVars, wdVars, obkVars, brokerVars, wdTasks, otaVars, setVars,
              collectorVars,
        oledVars,
        payloadVars,
        refVars,
        startVars,
        probeVars,
        clientVars,
        shutVars>>

\* the three outputs are set to 0; if (ppp && ppp->netif)
GetInfoBegin ==
    /\ infoPc = "idle"
    /\ infoOut' = NoAddrs
    /\ infoSeen' = {IF ppp THEN ppp_netif ELSE NoAddrs}
    /\ IF ppp
       THEN /\ infoPc' = "ip"
            /\ UNCHANGED infoReturned
       ELSE /\ infoReturned' = <<NoAddrs>>
            /\ UNCHANGED infoPc
    /\ UNCHANGED infoRest

\* *ip = ppp->netif->ip_addr.u_addr.ip4
GetInfoIp ==
    /\ infoPc = "ip"
    /\ infoOut' = [infoOut EXCEPT !.ip = ppp_netif.ip]
    /\ infoSeen' = infoSeen \cup {ppp_netif}
    /\ infoPc' = "gw"
    /\ UNCHANGED infoReturned
    /\ UNCHANGED infoRest

\* *gw = ppp->netif->gw.u_addr.ip4
GetInfoGw ==
    /\ infoPc = "gw"
    /\ infoOut' = [infoOut EXCEPT !.gw = ppp_netif.gw]
    /\ infoSeen' = infoSeen \cup {ppp_netif}
    /\ infoPc' = "nm"
    /\ UNCHANGED infoReturned
    /\ UNCHANGED infoRest

\* *nm = ppp->netif->netmask.u_addr.ip4; the call returns
GetInfoNm ==
    /\ infoPc = "nm"
    /\ infoOut' = [infoOut EXCEPT !.nm = ppp_netif.nm]
    /\ infoSeen' = infoSeen \cup {ppp_netif}
    /\ infoReturned' = <<infoOut'>>
    /\ infoPc' = "idle"
    /\ UNCHANGED infoRest

InfoInit ==
    /\ infoPc = "idle"
    /\ infoOut = NoAddrs
    /\ infoReturned = <<>>
    /\ infoSeen = {}

(***************************************************************************)
(* Display: oled_task (priority 5) with poll_debug_button and handle_oled, *)
(* and oled_blank_and_reset_screensaver, which watchdog_task (priority 1)  *)
(* calls before ap_restart.  The display task runs from the end of a wait  *)
(* to its next wait (the delay of its loop, a transfer to the display) in  *)
(* one piece; the watchdog task can be preempted between any two of its    *)
(* stores.  No lock guards the variables.                                  *)
(***************************************************************************)
SCREENSAVER_DELAY == 60

\* what the display's actions leave alone
oledRest == <<linkVars, wdVars, obkVars, brokerVars, wdTasks, otaVars, setVars,
              collectorVars, infoVars,
        payloadVars,
        refVars,
        startVars,
        probeVars,
        clientVars,
        shutVars>>

\* handle_oled: if (!screensaver && idle_seconds >= SCREENSAVER_DELAY)
\* screensaver = true, followed by a transfer to the display
OledDimCheck(ss, idle) ==
    IF ~ss /\ idle >= SCREENSAVER_DELAY
    THEN /\ screensaver' = TRUE
         /\ oledPc' = "dimmed"
    ELSE /\ screensaver' = ss
         /\ oledPc' = "sleep"

\* poll_debug_button: the debounced button is pressed
OledButton ==
    /\ oledPc = "sleep"
    /\ debug_mode' = ~debug_mode
    /\ screensaver' = FALSE
    /\ idle_seconds' = 0
    /\ blank_seconds' = 0
    /\ UNCHANGED <<oledPc, resetPc, oledResets, oledApRestarts, resetLeft>>
    /\ UNCHANGED oledRest

\* handle_oled from its entry to its first transfer to the display after
\* which it reads the variables again, or to its end; p > 0.0001 is the
\* power the telemetry reports
OledRefresh ==
    /\ oledPc = "sleep"
    /\ \E powered \in BOOLEAN :
          IF debug_mode
          THEN /\ screensaver' = FALSE
               /\ idle_seconds' = 0
               /\ blank_seconds' = 0
               /\ UNCHANGED oledPc
          ELSE IF blank_seconds > 0
          THEN /\ blank_seconds' = blank_seconds - 1
               /\ UNCHANGED <<screensaver, idle_seconds, oledPc>>
          ELSE IF powered /\ screensaver
          THEN /\ idle_seconds' = 0
               /\ screensaver' = FALSE
               /\ oledPc' = "woken"
               /\ UNCHANGED blank_seconds
          ELSE /\ idle_seconds' = IF powered THEN 0
                                  ELSE Min(idle_seconds + 1, SCREENSAVER_DELAY)
               /\ OledDimCheck(screensaver, idle_seconds')
               /\ UNCHANGED blank_seconds
    /\ UNCHANGED <<debug_mode, resetPc, oledResets, oledApRestarts, resetLeft>>
    /\ UNCHANGED oledRest

\* handle_oled after u8g2_SetPowerSave and u8g2_SetContrast of the branch
\* that ended the screensaver
OledWoken ==
    /\ oledPc = "woken"
    /\ OledDimCheck(screensaver, idle_seconds)
    /\ UNCHANGED <<idle_seconds, blank_seconds, debug_mode, resetPc, oledResets,
                   oledApRestarts, resetLeft>>
    /\ UNCHANGED oledRest

\* handle_oled after the transfers of the branch that began the screensaver:
\* if (screensaver) draw_screensaver, else the normal page; return
OledDimmed ==
    /\ oledPc = "dimmed"
    /\ oledPc' = "sleep"
    /\ UNCHANGED <<screensaver, idle_seconds, blank_seconds, debug_mode, resetPc,
                   oledResets, oledApRestarts, resetLeft>>
    /\ UNCHANGED oledRest

\* watchdog_task: ping_connected_clients returned false;
\* oled_blank_and_reset_screensaver: screensaver = false
ResetScreensaver ==
    /\ resetPc = "none"
    /\ oledResets < MaxOledResets
    /\ oledResets' = oledResets + 1
    /\ screensaver' = FALSE
    /\ resetPc' = "idle_seconds"
    /\ resetLeft' = <<>>
    /\ UNCHANGED <<idle_seconds, blank_seconds, debug_mode, oledPc, oledApRestarts>>
    /\ UNCHANGED oledRest

\* idle_seconds = 0
ResetIdle ==
    /\ resetPc = "idle_seconds"
    /\ idle_seconds' = 0
    /\ resetPc' = "normal_jitter_phase"
    /\ UNCHANGED <<screensaver, blank_seconds, debug_mode, oledPc, oledResets,
                   oledApRestarts, resetLeft>>
    /\ UNCHANGED oledRest

\* normal_jitter_phase = 0, the pixel offset of the normal page
ResetJitter ==
    /\ resetPc = "normal_jitter_phase"
    /\ resetPc' = "blank_seconds"
    /\ UNCHANGED <<screensaver, idle_seconds, blank_seconds, debug_mode, oledPc,
                   oledResets, oledApRestarts, resetLeft>>
    /\ UNCHANGED oledRest

\* blank_seconds = 2; the function returns
ResetBlank ==
    /\ resetPc = "blank_seconds"
    /\ blank_seconds' = 2
    /\ resetPc' = "returned"
    /\ resetLeft' = <<screensaver, idle_seconds, blank_seconds'>>
    /\ UNCHANGED <<screensaver, idle_seconds, debug_mode, oledPc, oledResets,
                   oledApRestarts>>
    /\ UNCHANGED oledRest

\* watchdog_task: ap_restart(), the statement after the reset of the display
OledApRestart ==
    /\ resetPc = "returned"
    /\ oledApRestarts' = oledApRestarts + 1
    /\ resetPc' = "none"
    /\ UNCHANGED <<screensaver, idle_seconds, blank_seconds, debug_mode, oledPc,
                   oledResets, resetLeft>>
    /\ UNCHANGED oledRest

OledInit ==
    /\ screensaver = FALSE
    /\ idle_seconds = 0
    /\ blank_seconds = 0
    /\ debug_mode = FALSE
    /\ oledPc = "sleep"
    /\ resetPc = "none"
    /\ oledResets = 0
    /\ oledApRestarts = 0
    /\ resetLeft = <<>>

(***************************************************************************)
(* handle_obk_message on the bytes of a message, with trim_whitespace.     *)
(***************************************************************************)
\* sizeof(tmp) of handle_obk_message
OBK_TMP_SIZE == 16

isspace(c) == c \in {" ", "\n"}

tolower(c) ==
    CASE c = "O" -> "o" [] c = "N" -> "n" [] c = "L" -> "l" [] c = "I" -> "i"
      [] c = "E" -> "e" [] c = "F" -> "f" [] OTHER -> c

\* strcasecmp(a, b) == 0
strcasecmp0(a, b) ==
    /\ Len(a) = Len(b)
    /\ \A i \in 1 .. Len(a) : tolower(a[i]) = tolower(b[i])

RECURSIVE SkipLeadingSpace(_)
SkipLeadingSpace(s) ==
    IF s # <<>> /\ isspace(Head(s)) THEN SkipLeadingSpace(Tail(s)) ELSE s

RECURSIVE DropTrailingSpace(_)
DropTrailingSpace(s) ==
    IF s # <<>> /\ isspace(s[Len(s)])
    THEN DropTrailingSpace(SubSeq(s, 1, Len(s) - 1))
    ELSE s

\* trim_whitespace(s): the string without the white space at its ends
trim_whitespace(s) ==
    DropTrailingSpace(SkipLeadingSpace(s))

ONLINE_TEXT == <<"o", "n", "l", "i", "n", "e">>
OFFLINE_TEXT == <<"o", "f", "f", "l", "i", "n", "e">>

\* handle_obk_message on OBK_CONNECTED_TOPIC, the mutex taken: the first
\* sizeof(tmp) - 1 bytes are copied and terminated, trimmed and compared
ObkConnectedAfter(data, state) ==
    LET n == IF Len(data) >= OBK_TMP_SIZE THEN OBK_TMP_SIZE - 1 ELSE Len(data)
        tmp == trim_whitespace(CStr(SubSeq(data, 1, n)))
    IN  IF strcasecmp0(tmp, ONLINE_TEXT) THEN OBK_ONLINE
        ELSE IF strcasecmp0(tmp, OFFLINE_TEXT) THEN OBK_OFFLINE
        ELSE state

\* n characters of white space
Pad(n) == [i \in 1 .. n |-> IF i % 2 = 1 THEN " " ELSE "\n"]

\* the words of the payloads
PayloadWords ==
    { <<>>, ONLINE_TEXT, <<"O", "n", "L", "i", "n", "e">>,
      <<"O", "F", "F", "L", "I", "N", "E">>, <<"o", "n", "l", "i", "n">> }

\* the payloads: a word with white space around it and, behind that, nothing,
\* one more character, or a zero byte and one more character
Payloads ==
    { Pad(a) \o w \o Pad(b) \o t :
        a \in {0, MaxPad}, w \in PayloadWords, b \in {0, MaxPad},
        t \in {<<>>, <<"x">>, <<NUL, "x">>} }

\* the topics the subscriber has subscribed to
ObkTopics == {OBK_CONNECTED_TOPIC, OBK_POWER_TOPIC}

\* what the byte-level delivery leaves alone
payloadRest == <<linkVars, wdTaskVars, g_obk_mutex, obkVars, brokerVars, wdTasks,
                 otaVars, setVars, collectorVars, infoVars, oledVars,
        refVars,
        startVars,
        probeVars,
        clientVars,
        shutVars>>

\* mqtt_event_handler of the subscriber, which mqtt_broker_start creates
\* after the mutex, has a whole message and calls handle_obk_message(topic,
\* data, len); the take of the mutex succeeds or times out
ObkDeliver ==
    /\ g_obk_mutex
    /\ \E topic \in ObkTopics, data \in Payloads, taken \in BOOLEAN :
          /\ obkLastMessage' = [topic |-> topic, data |-> data, taken |-> taken]
          /\ g_obk_connected_state' =
                IF Len(data) > 0 /\ topic = OBK_CONNECTED_TOPIC /\ taken
                THEN ObkConnectedAfter(data, g_obk_connected_state)
                ELSE g_obk_connected_state
    /\ obkDelivered' = ~obkDelivered
    /\ UNCHANGED payloadRest

PayloadInit ==
    /\ obkLastMessage = [topic |-> "none", data |-> <<>>, taken |-> FALSE]
    /\ obkDelivered = FALSE

\* both loops wait on an empty event group; the first connect request, which
\* is not the loops', has been made
RefInit ==
    /\ amBits = {} /\ rtBits = {}
    /\ amPc = "wait" /\ rtPc = "wait"
    /\ amDelayMs = 0 /\ rtDelayMs = 0
    /\ amLog = <<>> /\ rtLog = <<>>
    /\ refWoken = <<{}, {}>>
    /\ refEvents = 0

StartInit ==
    wdLastCall = <<>>

ProbeInit ==
    /\ pcPc = "idle"
    /\ pcProbe = 0
    /\ pcSuccess = FALSE
    /\ pcSemGiven = FALSE
    /\ pcReturned = <<>>
    /\ pcSessions = <<>>

ClientInit ==
    otaClient = "sending"

ShutInit ==
    collShutdown = <<>>

AuxInit ==
    /\ ShutInit
    /\ ClientInit
    /\ ProbeInit
    /\ StartInit
    /\ RefInit
    /\ PayloadInit
    /\ OledInit
    /\ InfoInit
    /\ ObkInit
    /\ BrokerInit
    /\ OtaInit
    /\ SetInit
    /\ CollectorInit

Init == LinkInit /\ WdInit /\ clientSilent = FALSE /\ AuxInit

\* the state after construction when one of the associated clients, which
\* holds a lease, does not reply to pings and stays that way
InitSilent == LinkInit /\ WdInit /\ clientSilent = TRUE /\ AuxInit

LinkNext ==
    \/ StartCreate
    \/ StartConnect
    \/ StartAgain
    \/ RcWake
    \/ RcConnect
    \/ RxRead
    \/ RxDelay
    \/ EngineAddrAssigned
    \/ EngineLinkUp
    \/ EngineLinkDown
    \/ StrayStatusEvent

\* the PPP module with the link engine keeping to its contract, and the
\* engine's transmissions
PppNext ==
    \/ StartCreate
    \/ StartConnect
    \/ StartAgain
    \/ RcWake
    \/ RcConnect
    \/ RxRead
    \/ RxDelay
    \/ OutputCb
    \/ EngineAddrAssigned
    \/ EngineLinkUp
    \/ EngineLinkDown

WdNext ==
    \/ WatchdogStart
    \/ WdFeed
    \/ WdReadState
    \/ WdEnumerate
    \/ WdProbe
    \/ WdPingWait
    \/ WdRestart
    \/ ApRestartReturn
    \/ WdDelay
    \/ MqttInitTelemetry
    \/ ObkMessage

\* the PPP module; the reconnect task is a FreeRTOS task of priority 9: once
\* its wait can return, or its delay has elapsed, it runs
SpecLink ==
    Init /\ [][LinkNext]_vars /\ WF_vars(RcWake) /\ WF_vars(RcConnect)

SpecPpp == Init /\ [][PppNext]_vars

\* the watchdog module and the telemetry state it reads
SpecWd == Init /\ [][WdNext]_vars

\* the steps of watchdog_task, and of ap_restart on its behalf
WdTaskStep ==
    \/ WdFeed
    \/ WdReadState
    \/ WdEnumerate
    \/ WdProbe
    \/ WdPingWait
    \/ WdRestart
    \/ ApRestartReturn
    \/ WdDelay

\* watchdog_start as the documentation asks for it: called once, from
\* app_main
FirstWatchdogStart ==
    /\ wdStarts = 0
    /\ WatchdogStart

WdOnceNext ==
    \/ FirstWatchdogStart
    \/ WdTaskStep
    \/ MqttInitTelemetry
    \/ ObkMessage

\* the watchdog module started once. watchdog_task is a FreeRTOS task that
\* no fault stops: whenever it can take a step (a call returns, a delay or a
\* bounded wait is over) it does
SpecWdFair == Init /\ [][WdOnceNext]_vars /\ WF_vars(WdTaskStep)

\* the same, with a client that stays silent
SpecSilentFair == InitSilent /\ [][WdOnceNext]_vars /\ WF_vars(WdTaskStep)

\* the supervisor thread when no telemetry arrives, with the faults that
\* stop it and the timer that guards it; nothing runs after a chip reset
HangNext ==
    \/ WatchdogStart
    \/ WdFeed
    \/ WdReadState
    \/ WdDelay
    \/ WdHang
    \/ HungElapse
    \/ TwdtExpire

SpecHang == Init /\ [][HangNext]_vars

\* the watchdog module with watchdog_deinit, called at any time by the task
\* that calls watchdog_start
DeinitNext ==
    \/ WatchdogStart
    \/ WatchdogDeinit
    \/ WdTaskStep
    \/ MqttInitTelemetry
    \/ ObkMessage

SpecDeinit == Init /\ [][DeinitNext]_vars

\* the telemetry state and the tasks that use its mutex
ObkNext ==
    \/ MqttInitTelemetry
    \/ HandleObkMessage
    \/ HandleObkGive
    \/ GetStateTake
    \/ GetStateGive
    \/ GetPowerTake
    \/ GetPowerGive

SpecObk == Init /\ [][ObkNext]_vars

\* the broker module: the calls of mqtt_broker_start and the broker task
BrokerNext ==
    \/ MqttBrokerStart
    \/ MqttBrokerStartSub
    \/ BrokerRun
    \/ BrokerExit
    \/ BrokerDelete

SpecBroker == Init /\ [][BrokerNext]_vars

\* the POST /ota requests the web server handles, one after the other
OtaNext ==
    \/ OtaBegin
    \/ OtaRecv
    \/ OtaEnd
    \/ OtaSetBoot
    \/ OtaRestart

SpecOta == Init /\ [][OtaNext]_vars

\* the POST /set requests the web server handles, one after the other
SetNext ==
    \/ SetPost
    \/ SetRestartReturn

SpecSet == Init /\ [][SetNext]_vars

\* one run of the collector, signals arriving at any time
CollectorNext ==
    \/ CollectorStart
    \/ OnSignal
    \/ CollectorLoop
    \/ CollectorRepair
    \/ CollectorSettle
    \/ CollectorReconnect
    \/ CollectorWait

SpecCollector == Init /\ [][CollectorNext]_vars

\* the link of the PPP module, without its data path, and a task that calls
\* ppp_get_ip_info again and again
InfoNext ==
    \/ StartCreate
    \/ StartConnect
    \/ RcWake
    \/ RcConnect
    \/ EngineAddrAssigned
    \/ EngineLinkUp
    \/ EngineLinkDown
    \/ GetInfoBegin
    \/ GetInfoIp
    \/ GetInfoGw
    \/ GetInfoNm

SpecInfo == Init /\ [][InfoNext]_vars

\* the display task and the watchdog task at a failed check
OledNext ==
    \/ OledButton
    \/ OledRefresh
    \/ OledWoken
    \/ OledDimmed
    \/ ResetScreensaver
    \/ ResetIdle
    \/ ResetJitter
    \/ ResetBlank
    \/ OledApRestart

SpecOled == Init /\ [][OledNext]_vars

\* the telemetry state and the messages of the subscriber, byte by byte
PayloadNext ==
    \/ MqttInitTelemetry
    \/ ObkDeliver

SpecPayload == Init /\ [][PayloadNext]_vars

(***************************************************************************)
(* Properties of the link.                                                 *)
(***************************************************************************)

C2_FaultLeadsToReconnect ==
    /\ faultSignalled ~> faultInBackoff
    /\ faultInBackoff ~> ~faultInBackoff

\* an error/close event arrived while the reconnect task sleeps for an
\* earlier one, after a success event
C2_Witness ==
    /\ rcPc = "sleep"
    /\ faultInBackoff
    /\ faultSignalled
    /\ s_event_group = {PPP_CONNECTED_BIT, PPP_DISCONN_BIT}

\* C3: whenever the reconnect task sleeps before a reconnect, the delay is
\* not zero, not below the delay of the previous consecutive failure, not
\* above the ceiling, and the minimum when no failure precedes it since the
\* last success.
C3_DelayBounded ==
    rcPc = "sleep" =>
        /\ rcDelayMs > 0
        /\ rcDelayMs >= prevDelayMs
        /\ rcDelayMs <= BackoffCeilingMs
        /\ (prevDelayMs = 0 => rcDelayMs = BackoffMinMs)

\* the reconnect task sleeps for a second consecutive failure
C3_Witness ==
    /\ rcPc = "sleep"
    /\ prevDelayMs > 0
    /\ rcDelayMs = ReconnectDelayMs
    /\ lastEvent \in ErrorCodes

(***************************************************************************)
(* Properties of the watchdog.                                             *)
(***************************************************************************)
AllUnresolved ==
    /\ Len(pairs) > 0
    /\ \A i \in 1 .. Len(pairs) : pairs[i] = 0

\* C4: in a monitoring cycle in which the access point reports zero
\* stations, ping_connected_clients returns success, no probe is issued and
\* ap_restart is not called.
C4_NoClientsNoProbe ==
    cycStaNum = 0 =>
        /\ cycResult = "success"
        /\ cycProbed = {}
        /\ cycRestarts = 0
        /\ wdPc \notin {"probe", "restart"}

\* a cycle that ran the check on an empty station list is over
C4_Witness ==
    /\ cycState = <<OBK_OFFLINE>>
    /\ cycEnumerated
    /\ cycStaNum = 0
    /\ wdPc = "delay"

\* C5: a client whose lease resolves to no address is never probed, and a
\* cycle whose clients are all unresolved reports success, counts no failure
\* and does not restart the access point.
C5_UnresolvedNotProbed ==
    /\ \A i \in cycProbed : pairs[i] # 0
    /\ AllUnresolved =>
          /\ cycProbed = {}
          /\ ~cycProbeFailed
          /\ cycRestarts = 0
          /\ wdPc # "restart"
          /\ (wdPc \in {"delay", "feed"} => cycResult = "success")

\* the loop of ping_connected_clients has passed over a list of unresolved
\* clients only, and the cycle is over
C5_Witness ==
    /\ AllUnresolved
    /\ Len(pairs) > 1
    /\ wdI = Len(pairs) + 1
    /\ wdPc = "delay"
    /\ cycResult = "success"

\* C6: a cycle in which a client with a resolved address fails its probe
\* ends at that probe and calls ap_restart exactly once; the cycle right
\* after it, when it sees an empty station list, does not call ap_restart.
C6_RestartOncePerFailingCycle ==
    /\ cycRestarts <= 1
    /\ cycProbeFailed => wdPc \in {"restart", "in_restart", "delay", "feed"}
    /\ (cycProbeFailed /\ wdPc = "restart") => cycRestarts = 0
    /\ (cycProbeFailed /\ wdPc \in {"in_restart", "delay", "feed"}) => cycRestarts = 1
    /\ (prevProbeFailed /\ cycStaNum = 0) => (cycRestarts = 0 /\ wdPc # "restart")

\* the cycle after a failed probe and its restart saw an empty station list
\* and is over without a restart
C6_Witness ==
    /\ prevProbeFailed
    /\ epRestarts = 1
    /\ cycStaNum = 0
    /\ cycRestarts = 0
    /\ wdPc = "delay"

\* C7: within one failure episode (consecutive cycles in which a client with
\* a resolved address does not reply) ap_restart is called at most once.
C7_OneRestartPerEpisode ==
    epRestarts <= 1

\* C8: in a monitoring period in which the suppression state read is Online,
\* the station list is not fetched, no probe is issued, ap_restart is not
\* called, and the timer was fed.
C8_OnlineSuppresses ==
    cycState = <<OBK_ONLINE>> =>
        /\ ~cycEnumerated
        /\ cycProbed = {}
        /\ cycRestarts = 0
        /\ wdPc \in {"delay", "feed"}
        /\ cycFed = 1
        /\ (wdPc = "delay" => twdtSince[FeedTask] = 0)

\* a period in which Online was read, when the previous period had a failed
\* probe
C8_Witness ==
    /\ cycState = <<OBK_ONLINE>>
    /\ wdPc = "delay"
    /\ prevProbeFailed

\* C9: a monitoring period in which the suppression state read is Offline or
\* Unknown runs the client reachability check.
C9_NotOnlineRunsCheck ==
    (wdPc = "delay" /\ cycState \in {<<OBK_OFFLINE>>, <<OBK_UNKNOWN>>})
        => cycEnumerated

\* C10: no task subscribed to the timer goes a whole timeout window without
\* resetting it.
C10_NoSubscribedTaskTrips ==
    \A t \in twdtSubscribed : twdtSince[t] < twdtTimeoutMs

\* C11: when watchdog_task makes no progress for longer than the configured
\* timeout, the timer trips for it and the chip is reset.
C11_HangResetsDevice ==
    (wdHung /\ FeedTask \in twdtTripped) => deviceReset

\* C12: from every position of watchdog_task, the wait inside
\* ping_client_ip for a session that never ends included, the task reaches
\* its next esp_task_wdt_reset.
C12_ProbeNeverBlocksFeed ==
    /\ (wdPc \notin {"none", "read"}) ~> (wdPc = "read")
    /\ (wdPc = "read") ~> (wdPc = "feed")

\* watchdog_task waits for the session of its second client, which will
\* neither reply nor end
C12_Witness ==
    /\ wdPc = "ping_wait"
    /\ pingFate = "never"
    /\ wdI = 2

\* C13: at most one call of ap_restart is in flight; watchdog_task starts a
\* restart only when none is in flight, also in a run of failing cycles.
C13_OneRestartInFlight ==
    /\ apRestartsInFlight <= 1
    /\ wdPc = "restart" => apRestartsInFlight = 0
    /\ apRestartsInFlight = 1 => wdPc = "in_restart"

\* the restart of the second consecutive failing cycle is in flight
C13_Witness ==
    /\ prevProbeFailed
    /\ epRestarts = 2
    /\ cycRestarts = 1
    /\ apRestartsInFlight = 1

\* C14: ap_restart is called in a cycle only after ping_client_ip failed in
\* that cycle for a client with a resolved address; a cycle in which the
\* station list, the AP netif or the lease lookup failed reports success,
\* probes nobody and does not restart.
C14_RestartOnlyAfterFailedProbe ==
    /\ (wdPc \in {"restart", "in_restart"} \/ cycRestarts > 0) =>
          /\ cycProbeFailed
          /\ wdI \in cycProbed
          /\ pairs[wdI] # 0
    /\ cycQueryFault # "none" =>
          /\ cycResult = "success"
          /\ cycProbed = {}
          /\ cycRestarts = 0
          /\ wdPc \in {"delay", "feed"}

\* a cycle whose lease lookup failed with two stations associated is over
C14_Witness ==
    /\ cycQueryFault = "dhcp"
    /\ cycStaNum = 2
    /\ wdPc = "delay"
    /\ cycResult = "success"

C16_OutputCbReportsWritten ==
    /\ [](lastOutput # <<>> =>
            /\ lastOutput[1] >= 0 => lastOutput[2] = lastOutput[1]
            /\ lastOutput[1] < 0 => lastOutput[2] = 0)
    /\ [][OutputCb => UNCHANGED <<s_ppp_up, s_event_group, rcPc, rcDelayMs,
                                  enginePhase, lastEvent, connectSinceFault,
                                  faultSignalled, faultInBackoff>>]_vars

\* a write failed while the link was established and the reconnect task
\* waited; the link is still established and the task still waits
C16_Witness ==
    /\ lastOutput = <<-1, 0>>
    /\ s_ppp_up
    /\ rcPc = "wait"
    /\ s_event_group = {}

\* C17: the chunks ppp_usb_rx_task has handed to pppos_input_tcpip are the
\* chunks received from the serial channel, each once and in the order of
\* receipt; a read that returned nothing hands over nothing.
C17_RxInOrderExactlyOnce ==
    rxDelivered = [i \in 1 .. rxCount |-> i]

\* two chunks were received and handed over, the second of two bytes
C17_Witness ==
    /\ rxCount = 2
    /\ rxDelivered = <<1, 2>>
    /\ rxLastInput = 2
    /\ rxPc = "delay"

\* C18: ppp_usb_start and ppp_reconnect_task call pppapi_connect only while
\* the link is Idle or Faulted, never while it is Connecting or Established.
C18_ConnectOnlyWhenIdleOrFaulted ==
    [][(StartConnect \/ RcConnect) => LinkState \in {"Idle", "Faulted"}]_vars

\* the reconnect task has issued its connect request for a faulted link
C18_Witness ==
    /\ rcPc = "wait"
    /\ prevDelayMs = ReconnectDelayMs
    /\ lastEvent \in ErrorCodes
    /\ LinkState = "Connecting"
    /\ enginePhase = "NEGOTIATING"

\* C20: while ppp_is_up() is false, ppp_get_ip_info returns 0 for address,
\* gateway and netmask, and ppp_get_ip returns 0.
C20_DownMeansZeroAddrs ==
    ~ppp_is_up => (ppp_get_ip = 0 /\ ppp_get_ip_info = NoAddrs)

\* C19: when an associated client with a lease does not reply to pings and
\* stays that way, the running watchdog task eventually calls ap_restart.
C19_SilentClientLeadsToRestart ==
    [](watchdog_task_handle => <>(apRestartsInFlight > 0))

(***************************************************************************)
(* Properties of the collaborators.                                        *)
(***************************************************************************)
\* C21: whenever mqtt_broker_get_obk_connected_state returns, it returns 1
\* if the last recognised connection-state message was online, 0 if it was
\* offline, and -1 only if there was none yet, whatever the handler and the
\* other users of the mutex do in between.
C21_GetterReturnsLastRecognised ==
    obkReturned # <<>> => obkReturned[1] = ObkStateOf(obkReturned[2])

\* C22: after any number of calls of mqtt_broker_start, also calls made
\* while the broker task is starting, running or ending, at most one
\* mqtt_broker_task and at most one mqtt_sub_task exist.
C22_AtMostOneBrokerAndSubscriber ==
    /\ BrokerTaskCount <= 1
    /\ subTasks <= 1

\* the third or a later call of mqtt_broker_start was refused while the
\* broker task was starting (its handle set, s_broker_running still false);
\* the subscriber task exists
C22_Witness ==
    /\ mbStartCalls >= 3
    /\ mbLastCall = "refused"
    /\ brokerTasks["log_start"] = 1
    /\ ~s_broker_running
    /\ subTasks = 1

\* C23: after any sequence of watchdog_start and watchdog_deinit calls at
\* most one feed task exists; while the handle is cleared (before the first
\* watchdog_start, and from a watchdog_deinit to the next watchdog_start) no
\* feed task exists and no step of watchdog_task (feed, state read, probe,
\* access-point restart, delay) is taken.
C23_OneFeedTaskNoneAfterDeinit ==
    /\ [](wdTasks <= 1)
    /\ [](~watchdog_task_handle => (wdTasks = 0 /\ wdPc = "none"))
    /\ [][WdTaskStep => watchdog_task_handle]_vars

\* after two calls of watchdog_start, watchdog_deinit was called in a
\* period in which the feed task had called ap_restart for a failed probe;
\* no feed task exists
C23_Witness ==
    /\ wdStarts = 2
    /\ ~watchdog_task_handle
    /\ wdTasks = 0
    /\ cycRestarts = 1
    /\ cycProbeFailed
    /\ epRestarts = 1
    /\ apRestartsInFlight = 0
    /\ ~twdtInit

\* C24: ota_post_handler calls esp_restart only after the whole image was
\* received and written and esp_ota_end and esp_ota_set_boot_partition both
\* succeeded; the boot partition is switched only then; a request that
\* failed at any step (empty image, no partition, begin, receive, write, end,
\* set boot) has not rebooted the chip, has not switched the boot partition
\* and has left s_ota_in_progress false and s_ota_progress -1.
C24_RebootOnlyAfterCompleteUpdate ==
    /\ (otaRebooted \/ otaPc = "respond" \/ bootSwitched) =>
          /\ otaTotal > 0
          /\ otaWritten = otaTotal
          /\ otaEnded
          /\ bootSwitched
          /\ otaFailure = "none"
    /\ otaFailure # "none" =>
          /\ ~otaRebooted
          /\ ~bootSwitched
          /\ otaPc = "idle"
          /\ ~s_ota_in_progress
          /\ s_ota_progress = -1

\* the second request failed at esp_ota_set_boot_partition after its whole
\* image, of the largest size, had been written and esp_ota_end had succeeded
C24_Witness ==
    /\ otaRequests = 2
    /\ otaFailure = "set_boot"
    /\ otaTotal = MaxImageLen
    /\ otaWritten = otaTotal
    /\ otaEnded
    /\ otaPc = "idle"

\* a request as C25 accepts it: data was received, the SSID is not empty,
\* the password is empty or at least 8 characters long, and persisting the
\* credentials succeeded
SetAccepted(r) ==
    /\ r.len > 0
    /\ r.ssid > 0
    /\ (r.pass = 0 \/ r.pass >= 8)
    /\ r.nvs = "ESP_OK"

\* C25: the /set handler changes the in-memory credentials and restarts the
\* access point only for a request with a non-empty SSID, a password that is
\* empty or at least 8 characters long, and credentials that were persisted;
\* every other request leaves the credentials as they were and restarts
\* nothing (a step that counts a request is the handler working on it).
C25_SetOnlyWhenValidAndPersisted ==
    [][(setRequests' # setRequests /\ ~SetAccepted(setLast'))
          => UNCHANGED <<g_ap_ssid, g_ap_pass, setApRestarts, setPc>>]_vars

\* after a request that changed the credentials and restarted the access
\* point, a request with a password of seven characters was rejected
C25_Witness ==
    /\ setRequests = 2
    /\ setApRestarts = 1
    /\ g_ap_ssid = <<"a">>
    /\ g_ap_pass = <<>>
    /\ setLast.pass = 7
    /\ setLast.ssid > 0
    /\ setPc = "idle"

\* C26: once in its main loop the collector exits only after SIGINT or
\* SIGTERM was received; no error of mosquitto_loop or mosquitto_reconnect
\* and no result of the repair script makes it leave the loop.
C26_ExitsOnlyOnSignal ==
    /\ collPc = "exited" => (g_should_stop /\ collSignal \in {"SIGINT", "SIGTERM"})
    /\ g_should_stop => collSignal \in {"SIGINT", "SIGTERM"}

\* the collector has exited on a signal after mosquitto_loop had returned
\* errors, system() had failed for the repair script and mosquitto_reconnect
\* had failed as often in a row as the run allows
C26_Witness ==
    /\ collPc = "exited"
    /\ collErrors = MaxLoopErrors
    /\ collScript = "system_failed"
    /\ collFails = MaxReconnectFails
    /\ collSignal = "SIGTERM"

RECURSIVE Pow2(_)
Pow2(k) == IF k <= 0 THEN 1 ELSE 2 * Pow2(k - 1)

\* C27: the wait between reconnect attempts starts at RECONNECT_MIN_S,
\* doubles after each failed mosquitto_reconnect in a row, never exceeds
\* RECONNECT_MAX_S, and is back at RECONNECT_MIN_S after a successful
\* reconnect or a successful loop iteration, for every configuration
\* env_or_default_int accepts.
C27_BackoffDoublesWithinMax ==
    /\ collPc = "wait" =>
          /\ collWait <= g_reconnect_max
          /\ collWait = Min(g_reconnect_min * Pow2(collFails - 1), g_reconnect_max)
    /\ collLast \in {"loop_ok", "reconnect_ok"} => backoff = g_reconnect_min

\* C28: within one monitoring cycle the clients are probed in list order
\* (a client is probed only after every client before it that has an
\* address); a probe that got no reply, or could not be started, ends
\* ping_connected_clients with failure in the same step; after it no
\* further client is probed in that cycle and the failing client is the last
\* one probed; the cycle reports success only after the loop has passed the
\* end of the list, every probed client having replied.
C28_FirstFailingProbeEndsCycle ==
    /\ [][\A i \in cycProbed' \ cycProbed :
             /\ \A j \in cycProbed : j < i
             /\ \A j \in 1 .. i - 1 : pairs[j] # 0 => j \in cycProbed]_vars
    /\ [][(wdPc = "ping_wait" /\ wdPc' # "ping_wait" /\ pingFate # "reply")
             => (cycResult' = "failure" /\ cycProbeFailed' /\ wdPc' = "restart")]_vars
    /\ [][(wdPc = "probe" /\ cycProbed' # cycProbed /\ wdPc' # "ping_wait")
             => (cycResult' = "failure" /\ cycProbeFailed' /\ wdPc' = "restart")]_vars
    /\ [][cycProbeFailed => cycProbed' \subseteq cycProbed]_vars
    /\ [](cycProbeFailed =>
             /\ cycResult = "failure"
             /\ wdPc \notin {"read", "enum", "probe", "ping_wait"}
             /\ wdI \in cycProbed
             /\ \A j \in cycProbed : j <= wdI)
    /\ []((cycResult = "success" /\ cycProbed # {}) =>
             /\ ~cycProbeFailed
             /\ wdI = Len(pairs) + 1)

\* the first of two clients with an address did not reply; the access point
\* was restarted and the cycle is over without a probe of the second client
C28_Witness ==
    /\ Len(pairs) = 2
    /\ pairs[1] # 0
    /\ pairs[2] # 0
    /\ cycProbed = {1}
    /\ cycProbeFailed
    /\ cycResult = "failure"
    /\ cycRestarts = 1
    /\ wdPc = "delay"

\* the positions of watchdog_task inside one pass of its loop, after the
\* call of esp_task_wdt_reset at the top
WdAfterFeed == {"read", "enum", "probe", "ping_wait", "restart", "in_restart", "delay"}

\* C29: every pass of the loop of watchdog_task begins with its one call of
\* esp_task_wdt_reset (the step from the top of the loop sets the task's
\* time on the timer to zero, the delay at the end of a pass leads to the
\* top and to nowhere else, and no other step leads to the read of the
\* suppression state); the state is read, and a client probed, only after
\* that call; between two such calls ping_connected_clients is entered at
\* most once and ap_restart is called at most once.
C29_FeedOncePerIterationFirst ==
    /\ [][(wdPc = "feed" /\ wdPc' # "feed")
             => (wdPc' = "read" /\ twdtSince'[FeedTask] = 0 /\ cycFed' = 1
                 /\ cycState' = <<>> /\ cycProbed' = {} /\ ~cycEnumerated'
                 /\ cycRestarts' = 0)]_vars
    /\ [][(wdPc = "delay" /\ wdPc' # "delay") => wdPc' = "feed"]_vars
    /\ [][(wdPc' = "read" /\ wdPc # "read") => wdPc = "feed"]_vars
    /\ [][(wdPc \in WdAfterFeed /\ wdPc' \in WdAfterFeed)
             => (cycFed' = cycFed /\ cycRestarts' >= cycRestarts)]_vars
    /\ [][cycState' # cycState
             => (wdPc = "feed" \/ (wdPc = "read" /\ cycFed = 1 /\ cycProbed = {}))]_vars
    /\ [][cycProbed' # cycProbed
             => (wdPc = "feed" \/ (cycFed = 1 /\ cycState # <<>>))]_vars
    /\ [][(wdPc = "enum" /\ wdPc' # "enum") => (~cycEnumerated /\ cycEnumerated')]_vars
    /\ [](wdPc \in WdAfterFeed => cycFed = 1)
    /\ [](cycRestarts <= 1)

\* in the pass after one that ended with a failed probe, watchdog_task has
\* confirmed its liveness, read the state "offline", run the check, which
\* failed again, called ap_restart once and is in its delay
C29_Witness ==
    /\ wdPc = "delay"
    /\ prevProbeFailed
    /\ cycFed = 1
    /\ cycState = <<OBK_OFFLINE>>
    /\ cycEnumerated
    /\ cycProbeFailed
    /\ cycRestarts = 1
    /\ twdtSince[FeedTask] > 0

\* C30: ppp_is_up() returns true exactly when the last status event
\* ppp_status_cb has handled was PPPERR_NONE: false before the first event
\* and after every error/close event; and s_ppp_up changes only in a step of
\* ppp_status_cb (the step records an event, sets the bit of that event and
\* leaves the flag at the value the event asks for).
C30_IsUpIffLastEventSuccess ==
    /\ [](ppp_is_up <=> lastEvent = PPPERR_NONE)
    /\ [][s_ppp_up' # s_ppp_up
             => /\ StatusCbBit(lastEvent') \in s_event_group'
                /\ s_ppp_up' = (lastEvent' = PPPERR_NONE)
                /\ (s_ppp_up => lastEvent' \in ErrorCodes)]_vars

\* the link was up and an error/close event followed before the reconnect
\* task took up the first: both bits are set and ppp_is_up() returns false
C30_Witness ==
    /\ ~ppp_is_up
    /\ lastEvent \in ErrorCodes
    /\ s_event_group = {PPP_CONNECTED_BIT, PPP_DISCONN_BIT}
    /\ startPc = "done"

\* C31: what ppp_get_ip_info returns is never torn: the address, gateway and
\* netmask returned are those the interface had together at one of the
\* reads of the call, for every interleaving with the link engine.
C31_SnapshotNeverTorn ==
    (infoPc = "idle" /\ infoReturned # <<>>) => infoReturned[1] \in infoSeen

\* C32: every ap_restart of the watchdog follows a call of
\* oled_blank_and_reset_screensaver of the same cycle, and when that call
\* returns the display state is reset: the screensaver is off, the idle
\* counter is 0 and two blank refreshes are due, for every interleaving with
\* handle_oled.
C32_DisplayResetBeforeRestart ==
    /\ oledApRestarts <= oledResets
    /\ resetPc = "returned" => oledApRestarts = oledResets - 1
    /\ resetLeft # <<>> => resetLeft = <<FALSE, 0, 2>>

\* C33: a message on the connection-state topic sets the stored state to
\* Online iff its payload without the white space at its ends equals "online"
\* in any case of letters, and to Offline iff it equals "offline"; every
\* other payload, an empty payload and a message on another topic leave the
\* state as it was; the state never returns to Unknown once set.
C33_StateFollowsTrimmedPayload ==
    /\ [][obkDelivered' # obkDelivered =>
             LET d == obkLastMessage'
                 word == trim_whitespace(d.data)
             IN  g_obk_connected_state' =
                     IF d.topic = OBK_CONNECTED_TOPIC /\ strcasecmp0(word, ONLINE_TEXT)
                     THEN OBK_ONLINE
                     ELSE IF d.topic = OBK_CONNECTED_TOPIC
                             /\ strcasecmp0(word, OFFLINE_TEXT)
                     THEN OBK_OFFLINE
                     ELSE g_obk_connected_state]_vars
    /\ [][g_obk_connected_state # OBK_UNKNOWN => g_obk_connected_state' # OBK_UNKNOWN]_vars


(***************************************************************************)
(* The reconnect loop of the original app_main (src/main/ppp_usb_main.c)   *)
(* beside ppp_reconnect_task.  Both receive the same status events and are *)
(* scheduled at the same points of the event sequence.                     *)
(***************************************************************************)
refRest == <<linkVars, wdVars, wdTasks, obkVars, brokerVars, otaVars, setVars,
             collectorVars, infoVars, oledVars, payloadVars,
        probeVars,
        clientVars,
        shutVars,
        startVars>>

\* ppp_usb_main.c, ppp_status_cb: the bit it sets in s_event_group
MainStatusCbBit(err_code) ==
    IF err_code = PPPERR_NONE THEN PPP_CONNECTED_BIT ELSE PPP_DISCONN_BIT

\* app_main: if (bits & PPP_DISCONN_BIT)
MainReconnectWanted(bits) ==
    PPP_DISCONN_BIT \in bits

\* app_main: vTaskDelay(pdMS_TO_TICKS(2000))
MainReconnectDelayMs == 2000

\* the link engine delivers a status event: each program's ppp_status_cb sets
\* its bit in its event group
RefStatusEvent ==
    /\ refEvents < MaxRefEvents
    /\ \E err_code \in ErrorCodes \cup {PPPERR_NONE} :
          /\ amBits' = amBits \cup {MainStatusCbBit(err_code)}
          /\ rtBits' = rtBits \cup {StatusCbBit(err_code)}
    /\ refEvents' = refEvents + 1
    /\ UNCHANGED <<amPc, amDelayMs, amLog, rtPc, rtDelayMs, rtLog, refWoken>>
    /\ UNCHANGED refRest

\* xEventGroupWaitBits returns in each loop that waits on a set bit: the
\* bits are cleared, and on the disconnect bit the loop enters vTaskDelay
RefWake ==
    /\ \/ amPc = "wait" /\ amBits # {}
       \/ rtPc = "wait" /\ rtBits # {}
    /\ IF amPc = "wait" /\ amBits # {}
       THEN /\ amBits' = {}
            /\ amPc' = IF MainReconnectWanted(amBits) THEN "sleep" ELSE "wait"
            /\ amDelayMs' = IF MainReconnectWanted(amBits) THEN MainReconnectDelayMs ELSE 0
       ELSE UNCHANGED <<amBits, amPc, amDelayMs>>
    /\ IF rtPc = "wait" /\ rtBits # {}
       THEN /\ rtBits' = {}
            /\ rtPc' = IF ReconnectWanted(rtBits) THEN "sleep" ELSE "wait"
            /\ rtDelayMs' = IF ReconnectWanted(rtBits) THEN ReconnectDelay(0) ELSE 0
       ELSE UNCHANGED <<rtBits, rtPc, rtDelayMs>>
    /\ refWoken' = <<IF amPc = "wait" /\ amBits # {} THEN amBits ELSE refWoken[1],
                     IF rtPc = "wait" /\ rtBits # {} THEN rtBits ELSE refWoken[2]>>
    /\ UNCHANGED <<amLog, rtLog, refEvents>>
    /\ UNCHANGED refRest

\* the delay has elapsed in each loop that sleeps: pppapi_connect(ppp, 0),
\* back to the wait
RefConnect ==
    /\ amPc = "sleep" \/ rtPc = "sleep"
    /\ IF amPc = "sleep"
       THEN /\ amLog' = Append(amLog, [delay |-> amDelayMs, bits |-> refWoken[1]])
            /\ amPc' = "wait"
            /\ amDelayMs' = 0
       ELSE UNCHANGED <<amLog, amPc, amDelayMs>>
    /\ IF rtPc = "sleep"
       THEN /\ rtLog' = Append(rtLog, [delay |-> rtDelayMs, bits |-> refWoken[2]])
            /\ rtPc' = "wait"
            /\ rtDelayMs' = 0
       ELSE UNCHANGED <<rtLog, rtPc, rtDelayMs>>
    /\ UNCHANGED <<amBits, rtBits, refWoken, refEvents>>
    /\ UNCHANGED refRest

RefNext ==
    \/ RefStatusEvent
    \/ RefWake
    \/ RefConnect

SpecRefine == Init /\ [][RefNext]_vars

\* C34: ppp_reconnect_task reproduces the reconnect loop of the original
\* app_main: fed the same status events at the same points, both loops are in
\* the same position with the same bits pending and have issued the same
\* connect requests, each after the same delay of 2 s, and every connect
\* request follows a wake-up that carried the disconnect bit, never a
\* success event alone.
C34_SameConnectRequests ==
    /\ rtLog = amLog
    /\ rtPc = amPc /\ rtBits = amBits /\ rtDelayMs = amDelayMs
    /\ \A i \in 1 .. Len(rtLog) :
          /\ rtLog[i].delay = 2000
          /\ PPP_DISCONN_BIT \in rtLog[i].bits
    /\ \A i \in 1 .. Len(amLog) :
          /\ amLog[i].delay = 2000
          /\ PPP_DISCONN_BIT \in amLog[i].bits
    /\ refWoken[2] = {PPP_CONNECTED_BIT} => rtPc = "wait"

\* both loops have reconnected twice, once after a wake-up with both bits
\* set, and were last woken by a success event alone
C34_Witness ==
    /\ Len(rtLog) = 2 /\ Len(amLog) = 2
    /\ \E i \in 1 .. 2 : rtLog[i].bits = {PPP_CONNECTED_BIT, PPP_DISCONN_BIT}
    /\ refWoken = <<{PPP_CONNECTED_BIT}, {PPP_CONNECTED_BIT}>>


(***************************************************************************)
(* watchdog_start with its arguments on record                             *)
(***************************************************************************)
startRest == <<obkVars, brokerVars, otaVars, setVars, collectorVars, infoVars,
               oledVars, payloadVars, refVars,
        probeVars,
        clientVars,
        shutVars>>

\* a call of watchdog_start; the arguments and the result of
\* esp_task_wdt_init are kept for the properties
WatchdogStartCall ==
    /\ \E timeout_seconds \in TimeoutSecondsSet, period_ms \in PeriodMsSet,
          noMem \in BOOLEAN :
          /\ watchdog_start(timeout_seconds, period_ms, noMem)
          /\ wdLastCall' = [timeout_seconds |-> timeout_seconds,
                            period_ms |-> period_ms,
                            err |-> esp_task_wdt_init(noMem)]
    /\ UNCHANGED <<linkVars, startRest>>

StartNext ==
    \/ WatchdogStartCall
    \/ WatchdogDeinit
    \/ WdFeed
    \/ WdReadState
    \/ WdDelay

\* watchdog_start and watchdog_deinit called in any order by one task,
\* beside a feed task that finds no telemetry
SpecStart == Init /\ [][StartNext]_vars

\* C35: a call of watchdog_start(timeout_seconds, period_ms) that leaves a
\* feed task running leaves the timer with a timeout of timeout_seconds and
\* the feed period at period_ms, whatever the timer's state was before and
\* whether or not a feed task existed; a call in which the initialisation of
\* the timer fails with an error other than "already initialised" subscribes
\* no task and creates no feed task.
C35_StartSetsTimeoutAndPeriod ==
    [][wdStarts' # wdStarts =>
          /\ watchdog_task_handle' =>
                /\ twdtTimeoutMs' = 1000 * wdLastCall'.timeout_seconds
                /\ feed_period_ms' = wdLastCall'.period_ms
          /\ wdLastCall'.err \notin {"ESP_OK", "ESP_ERR_INVALID_STATE"} =>
                /\ twdtSubscribed' = twdtSubscribed
                /\ watchdog_task_handle' = watchdog_task_handle
                /\ wdTasks' = wdTasks]_vars


(***************************************************************************)
(* ping_client_ip, statement by statement, and the session task that       *)
(* esp_ping_new_session creates.  The session task calls the callbacks     *)
(* with cb_args = &result: it sends one request, waits for the reply,      *)
(* calls ping_on_success on a reply, and calls ping_on_end when the batch  *)
(* is over.  esp_ping_stop and esp_ping_delete_session clear a flag of     *)
(* the session and return; the task ends by itself when it next tests the  *)
(* flag.                                                                   *)
(***************************************************************************)
probeRest == <<linkVars, wdVars, wdTasks, obkVars, brokerVars, otaVars, setVars,
               collectorVars, infoVars, oledVars, payloadVars, refVars, startVars,
        clientVars,
        shutVars>>

\* the result record of call i exists: the task is inside that call
ResultLive(i) ==
    pcProbe = i /\ pcPc # "idle"

\* the semaphore of call i exists: created and not yet deleted
SemLive(i) ==
    pcProbe = i /\ pcPc \in {"new_session", "start", "take", "stop", "delete", "semdel"}

\* ping_client_ip is entered: result = { false, xSemaphoreCreateBinary() };
\* if (!result.done) return false
PcEnter ==
    /\ pcPc = "idle"
    /\ pcProbe < MaxProbes
    /\ \E created \in BOOLEAN :
          IF created
          THEN /\ pcProbe' = pcProbe + 1
               /\ pcSuccess' = FALSE
               /\ pcSemGiven' = FALSE
               /\ pcPc' = "new_session"
               /\ UNCHANGED pcReturned
          ELSE /\ pcReturned' = <<FALSE>>
               /\ UNCHANGED <<pcProbe, pcSuccess, pcSemGiven, pcPc>>
    /\ UNCHANGED pcSessions
    /\ UNCHANGED probeRest

\* esp_ping_new_session(&ping_config, &callbacks, &ping_handle); on failure
\* the semaphore is deleted and false returned
PcNewSession ==
    /\ pcPc = "new_session"
    /\ \E ok \in BOOLEAN :
          IF ok
          THEN /\ pcSessions' = Append(pcSessions,
                      [pc |-> "blocked", start |-> FALSE, init |-> TRUE,
                       notified |-> FALSE])
               /\ pcPc' = "start"
               /\ UNCHANGED pcReturned
          ELSE /\ pcSessions' = Append(pcSessions,
                      [pc |-> "none", start |-> FALSE, init |-> FALSE,
                       notified |-> FALSE])
               /\ pcPc' = "idle"
               /\ pcReturned' = <<FALSE>>
    /\ UNCHANGED <<pcProbe, pcSuccess, pcSemGiven>>
    /\ UNCHANGED probeRest

\* esp_ping_start(ping_handle)
PcStart ==
    /\ pcPc = "start"
    /\ pcSessions' = [pcSessions EXCEPT ![pcProbe].start = TRUE,
                                        ![pcProbe].notified = TRUE]
    /\ pcPc' = "take"
    /\ UNCHANGED <<pcProbe, pcSuccess, pcSemGiven, pcReturned>>
    /\ UNCHANGED probeRest

\* xSemaphoreTake(result.done, pdMS_TO_TICKS(timeout_ms + 200)) returns: the
\* semaphore was given, or the time is up; the session task, which has the
\* higher priority, has taken its start notification by then
PcTake ==
    /\ pcPc = "take"
    /\ pcSemGiven \/ ~pcSessions[pcProbe].notified
    /\ pcSemGiven' = FALSE
    /\ pcPc' = "stop"
    /\ UNCHANGED <<pcProbe, pcSuccess, pcReturned, pcSessions>>
    /\ UNCHANGED probeRest

\* esp_ping_stop(ping_handle)
PcStop ==
    /\ pcPc = "stop"
    /\ pcSessions' = [pcSessions EXCEPT ![pcProbe].start = FALSE]
    /\ pcPc' = "delete"
    /\ UNCHANGED <<pcProbe, pcSuccess, pcSemGiven, pcReturned>>
    /\ UNCHANGED probeRest

\* esp_ping_delete_session(ping_handle)
PcDeleteSession ==
    /\ pcPc = "delete"
    /\ pcSessions' = [pcSessions EXCEPT ![pcProbe].init = FALSE]
    /\ pcPc' = "semdel"
    /\ UNCHANGED <<pcProbe, pcSuccess, pcSemGiven, pcReturned>>
    /\ UNCHANGED probeRest

\* vSemaphoreDelete(result.done)
PcSemDelete ==
    /\ pcPc = "semdel"
    /\ pcPc' = "ret"
    /\ pcSemGiven' = FALSE
    /\ UNCHANGED <<pcProbe, pcSuccess, pcReturned, pcSessions>>
    /\ UNCHANGED probeRest

\* return result.success: the record, a local variable, ends with the call
PcReturn ==
    /\ pcPc = "ret"
    /\ pcReturned' = <<pcSuccess>>
    /\ pcPc' = "idle"
    /\ UNCHANGED <<pcProbe, pcSuccess, pcSemGiven, pcSessions>>
    /\ UNCHANGED probeRest

\* the session task of call i is woken by esp_ping_start: it sends the
\* request if the session is still started, else the batch is over
SsStart(i) ==
    /\ pcSessions[i].pc = "blocked"
    /\ pcSessions[i].notified
    /\ pcSessions' = [pcSessions EXCEPT ![i].notified = FALSE,
                         ![i].pc = IF pcSessions[i].start THEN "recv" ELSE "on_end"]
    /\ UNCHANGED <<pcPc, pcProbe, pcSuccess, pcSemGiven, pcReturned>>
    /\ UNCHANGED probeRest

\* the session task's wait for the reply is over: a reply came, or none
\* within timeout_ms
SsRecv(i) ==
    /\ pcSessions[i].pc = "recv"
    /\ \E reply \in BOOLEAN :
          pcSessions' = [pcSessions EXCEPT
                            ![i].pc = IF reply THEN "on_success" ELSE "on_end"]
    /\ UNCHANGED <<pcPc, pcProbe, pcSuccess, pcSemGiven, pcReturned>>
    /\ UNCHANGED probeRest

\* ping_on_success(hdl, args): res->success = true.  A store through a
\* pointer to a record that has ended lands on the stack of the task that
\* owned it: in a record that is there now, or elsewhere
SsOnSuccess(i) ==
    /\ pcSessions[i].pc = "on_success"
    /\ IF ResultLive(i)
       THEN pcSuccess' = TRUE
       ELSE pcSuccess' \in {pcSuccess, TRUE}
    /\ pcSessions' = [pcSessions EXCEPT ![i].pc = "on_end"]
    /\ UNCHANGED <<pcPc, pcProbe, pcSemGiven, pcReturned>>
    /\ UNCHANGED probeRest

\* ping_on_end(hdl, args): xSemaphoreGive(res->done).  Through a record that
\* has ended, or on a semaphore that was deleted, the call gives whatever
\* is there now, or nothing
SsOnEnd(i) ==
    /\ pcSessions[i].pc = "on_end"
    /\ IF ResultLive(i) /\ SemLive(i)
       THEN pcSemGiven' = TRUE
       ELSE pcSemGiven' \in {pcSemGiven, TRUE}
    /\ pcSessions' = [pcSessions EXCEPT
                         ![i].pc = IF pcSessions[i].init THEN "blocked" ELSE "gone"]
    /\ UNCHANGED <<pcPc, pcProbe, pcSuccess, pcReturned>>
    /\ UNCHANGED probeRest

\* the session task finds the session deleted while it waits to be started,
\* and ends
SsExit(i) ==
    /\ pcSessions[i].pc = "blocked"
    /\ ~pcSessions[i].init
    /\ pcSessions' = [pcSessions EXCEPT ![i].pc = "gone"]
    /\ UNCHANGED <<pcPc, pcProbe, pcSuccess, pcSemGiven, pcReturned>>
    /\ UNCHANGED probeRest

ProbeNext ==
    \/ PcEnter
    \/ PcNewSession
    \/ PcStart
    \/ PcTake
    \/ PcStop
    \/ PcDeleteSession
    \/ PcSemDelete
    \/ PcReturn
    \/ \E i \in DOMAIN pcSessions : SsStart(i)
    \/ \E i \in DOMAIN pcSessions : SsRecv(i)
    \/ \E i \in DOMAIN pcSessions : SsOnSuccess(i)
    \/ \E i \in DOMAIN pcSessions : SsOnEnd(i)
    \/ \E i \in DOMAIN pcSessions : SsExit(i)

SpecProbe == Init /\ [][ProbeNext]_vars

\* C36: no ping callback runs against a result record or a semaphore that
\* ping_client_ip has released: whenever a session task is about to call
\* ping_on_success, the result record it was given exists, and whenever it
\* is about to call ping_on_end, that record and its semaphore exist, also
\* after the wait of ping_client_ip has timed out.
C36_CallbacksTouchLiveResult ==
    \A i \in DOMAIN pcSessions :
       /\ pcSessions[i].pc = "on_success" => ResultLive(i)
       /\ pcSessions[i].pc = "on_end" => ResultLive(i) /\ SemLive(i)


\* C37: watchdog_deinit, called at any point, also while watchdog_task is
\* inside ping_client_ip or ap_restart, leaves no live ping session, no
\* probe semaphore and no task subscribed to the timer.
C37_DeinitLeavesNothingBehind ==
    [][(watchdog_task_handle /\ ~watchdog_task_handle') =>
          /\ probeSessions' = 0
          /\ probeSems' = 0
          /\ twdtSubscribed' = {}]_vars


(***************************************************************************)
(* POST /ota with its client.  The socket of the request has a receive     *)
(* time-out: httpd_req_recv returns HTTPD_SOCK_ERR_TIMEOUT when nothing    *)
(* arrived in time, 0 or an error when the connection was closed.          *)
(***************************************************************************)
clientRest == <<linkVars, wdVars, wdTasks, obkVars, brokerVars, setVars,
                collectorVars, infoVars, oledVars, payloadVars, refVars,
                startVars, probeVars,
        shutVars>>

\* what httpd_req_recv can return to a request of this client
ClientRecvResults(client, n) ==
    IF client = "silent" THEN {HTTPD_SOCK_ERR_TIMEOUT}
    ELSE IF client = "closed" THEN {-1, 0}
    ELSE RecvResults(n)

\* a request arrives from a client that sends
OtaBeginClient ==
    /\ otaClient = "sending"
    /\ OtaBegin

\* one pass of the receive loop
OtaRecvClient ==
    /\ ota_recv_pass(ClientRecvResults(otaClient, Min(otaRemaining, OTA_BUF_SIZE)))
    /\ UNCHANGED <<clientVars, clientRest>>

\* the client stops sending before the announced length was received and
\* keeps the connection
ClientStall ==
    /\ otaPc = "recv"
    /\ otaClient = "sending"
    /\ otaClient' = "silent"
    /\ UNCHANGED <<otaVars, clientRest>>

\* the client closes the connection
ClientClose ==
    /\ otaPc = "recv"
    /\ otaClient \in {"sending", "silent"}
    /\ otaClient' = "closed"
    /\ UNCHANGED <<otaVars, clientRest>>

\* the next client connects
ClientNew ==
    /\ otaPc = "idle"
    /\ otaClient # "sending"
    /\ otaClient' = "sending"
    /\ UNCHANGED <<otaVars, clientRest>>

\* the steps of ota_post_handler after its entry
OtaHandlerStep ==
    \/ OtaRecvClient
    \/ OtaEnd
    \/ OtaSetBoot
    \/ OtaRestart

OtaClientNext ==
    \/ OtaBeginClient
    \/ OtaHandlerStep
    \/ ClientStall
    \/ ClientClose
    \/ ClientNew

\* the web server task runs the handler whenever it can take a step; the
\* client is free to send, to fall silent and to close
SpecOtaFair == Init /\ [][OtaClientNext]_vars /\ WF_vars(OtaHandlerStep)

\* C38: ota_post_handler terminates for every request: a request being
\* handled eventually ends with an error and the in-progress flag cleared,
\* or completes and reboots, also when the client stops sending before the
\* announced content length was received.
C38_OtaHandlerTerminates ==
    (otaPc # "idle" /\ ~otaRebooted)
       ~> ((otaPc = "idle" /\ ~s_ota_in_progress) \/ otaRebooted)


(***************************************************************************)
(* The collector's way out: the statements of main after its loop          *)
(***************************************************************************)
shutRest == <<linkVars, wdVars, wdTasks, obkVars, brokerVars, otaVars, setVars,
              infoVars, oledVars, payloadVars, refVars, startVars, probeVars,
              clientVars>>

\* main after the loop: mosquitto_disconnect(g_mosq); mosquitto_destroy(g_mosq);
\* mosquitto_lib_cleanup(); db_close(); return 0
ShutdownSequence ==
    <<"mosquitto_disconnect", "mosquitto_destroy", "mosquitto_lib_cleanup", "db_close">>

\* one pass of the main loop; when the loop is left the shutdown sequence
\* runs
CollectorLoopShutdown ==
    /\ collector_loop_pass
    /\ collShutdown' = IF collPc' = "exited"
                       THEN collShutdown \o ShutdownSequence
                       ELSE collShutdown
    /\ UNCHANGED shutRest

\* the environment of the runs followed to their end: a variable is unset,
\* or holds a number that makes the wait it sets empty or not
ShutdownEnv ==
    {NULL, <<"0">>}

\* main from its entry to the loop
CollectorStartShort ==
    /\ collector_start(ShutdownEnv)
    /\ UNCHANGED collectorRest

\* the steps of main
CollectorStep ==
    \/ CollectorStartShort
    \/ CollectorLoopShutdown
    \/ CollectorRepair
    \/ CollectorSettle
    \/ CollectorReconnect
    \/ CollectorWait

ShutdownNext ==
    \/ CollectorStep
    \/ OnSignal

\* one run of the collector: every call main makes returns (mosquitto_loop
\* after its time-out of 1 s at the latest, sleep(1) after a second, the
\* repair script when it ends), signals arrive at any time
SpecShutdown == Init /\ [][ShutdownNext]_vars /\ WF_vars(CollectorStep)

\* C39: after SIGINT or SIGTERM has been delivered, wherever main is (main
\* loop, sleep after the repair script, reconnect loop and its backoff
\* wait), the collector eventually leaves all loops and has run the shutdown
\* sequence mosquitto_disconnect, mosquitto_destroy, db_close exactly once;
\* it never runs any of it while it is in its loops.
C39_SignalLeadsToOneShutdown ==
    /\ g_should_stop ~> (collPc = "exited" /\ collShutdown = ShutdownSequence)
    /\ [](collPc # "exited" => collShutdown = <<>>)
    /\ [](collPc = "exited" => collShutdown = ShutdownSequence)

\* the collector has shut down after a signal that reached it in the
\* backoff wait of the reconnect loop
C39_Witness ==
    /\ collPc = "exited"
    /\ collShutdown = ShutdownSequence
    /\ collLast = "reconnect_failed"
    /\ collSignal = "SIGINT"

====
